---- MODULE Spec2Model ----
(***************************************************************************)
(* Model of the plugin ("extension") runtime of data-nexus-bridge-service: *)
(* the capability registry (plugins/registry.py), the dependency resolver  *)
(* (plugins/dependencies.py), the source manager                           *)
(* (plugins/source_manager.py), the executor (plugins/executor.py) and the *)
(* document event dispatcher (plugins/signals.py).                         *)
(*                                                                         *)
(* Strings that the code builds with f"{a}.{b}" are modelled as sequences  *)
(* of dot-free segments, so "acme.wc" is <<"acme", "wc">> and joining with *)
(* a dot is sequence concatenation.                                        *)
(***************************************************************************)
EXTENDS Integers, Sequences, FiniteSets, TLC

VARIABLES
    registry,     \* plugin_registry: the five dicts of PluginRegistry
    sources,      \* PluginSource rows, keyed by slug
    plugins,      \* Plugin rows, keyed by slug (unique)
    components,   \* PluginComponent rows
    instances,    \* PluginInstance rows
    logs,         \* PluginExecutionLog rows, in creation order
    cache,        \* on-disk plugin cache: directories under PLUGIN_CACHE_DIR
    doc,          \* the persisted Document row (NoDoc before creation)
    dep,          \* input and output of the last dependency check
    last          \* the last operation: its arguments, result and call trace

vars == <<registry, sources, plugins, components, instances, logs, cache, doc, dep, last>>

(***************************************************************************)
(* Dictionaries as sets of <<key, value>> pairs with unique keys.          *)
(***************************************************************************)
Has(m, k) == \E e \in m : e[1] = k
Get(m, k) == (CHOOSE e \in m : e[1] = k)[2]
Put(m, k, v) == {e \in m : e[1] # k} \cup {<<k, v>>}
Pop(m, k) == {e \in m : e[1] # k}
Keys(m) == {e[1] : e \in m}
Range(s) == {s[i] : i \in DOMAIN s}

None == "None"

(***************************************************************************)
(* Plugin classes that discovery or the dynamic loader can produce.  Each  *)
(* is what get_meta() and the four get_X() accessors return.               *)
(***************************************************************************)
Kinds == {"importer", "preprocessor", "postprocessor", "datasource"}

NoComps == [importer |-> <<>>, preprocessor |-> <<>>, postprocessor |-> <<>>, datasource |-> <<>>]

ClassIds == {"Example", "Sync", "WcV1", "WcV2", "AcmeWc", "Dup", "Blank"}

Classes(c) ==
    CASE c = "Example" ->
            [slug |-> <<"example-plugin">>, version |-> "1.0.0",
             comps |-> [NoComps EXCEPT !.importer = <<"filesystem-importer">>,
                                       !.preprocessor = <<"custom-id-generator">>,
                                       !.postprocessor = <<"archive-on-approval", "webhook-notifier">>]]
      [] c = "Sync" ->
            [slug |-> <<"sync">>, version |-> "1.0.0",
             comps |-> [NoComps EXCEPT !.datasource = <<"crm">>]]
      [] c = "WcV1" ->
            [slug |-> <<"wc">>, version |-> "1.0.0",
             comps |-> [NoComps EXCEPT !.preprocessor = <<"clean">>,
                                       !.postprocessor = <<"count">>]]
      [] c = "WcV2" ->
            [slug |-> <<"wc">>, version |-> "2.0.0",
             comps |-> [NoComps EXCEPT !.importer = <<"feed">>,
                                       !.postprocessor = <<"count">>]]
      [] c = "AcmeWc" ->
            [slug |-> <<"acme", "wc">>, version |-> "1.0.0",
             comps |-> [NoComps EXCEPT !.postprocessor = <<"count">>]]
      [] c = "Dup" ->
            [slug |-> <<"dup">>, version |-> "1.0.0",
             comps |-> [NoComps EXCEPT !.importer = <<"x">>,
                                       !.datasource = <<"x">>]]
      [] c = "Blank" ->
            [slug |-> <<"blank">>, version |-> "", comps |-> NoComps]

\* validate_plugin_class(plugin_class): the error messages for the metadata
\* (the classes here have a name and accessors that return lists)
validate_plugin_class(c) ==
    (IF Classes(c).slug = <<>> THEN {"Plugin meta.slug is required"} ELSE {})
        \cup (IF Classes(c).version = "" THEN {"Plugin meta.version is required"} ELSE {})

(***************************************************************************)
(* PluginRegistry                                                          *)
(***************************************************************************)
EmptyRegistry ==
    [plugins |-> {}, importer |-> {}, preprocessor |-> {}, postprocessor |-> {}, datasource |-> {}]

\* f"{plugin_slug}.{component_meta.slug}"
FullSlug(plugin_slug, component_slug) == plugin_slug \o <<component_slug>>

\* the loop "for X_class in plugin_class.get_Xs(): self._Xs[full_slug] = X_class"
PutComponents(m, plugin_slug, c, kind) ==
    LET news == {<<FullSlug(plugin_slug, s), <<c, s>>>> : s \in Range(Classes(c).comps[kind])}
    IN  {e \in m : ~Has(news, e[1])} \cup news

\* the loop with its pop left out
PopComponents_Kept(m, plugin_slug, c, kind) == m

\* the loop "for X_class in plugin_class.get_Xs(): self._Xs.pop(full_slug, None)"
PopComponents(m, plugin_slug, c, kind) ==
    {e \in m : e[1] \notin {FullSlug(plugin_slug, s) : s \in Range(Classes(c).comps[kind])}}

\* "if plugin_slug in self._plugins" with the guard dropped (last writer wins)
AlreadyRegistered_Never(reg, plugin_slug) == FALSE

\* "if plugin_slug in self._plugins: ... return"
AlreadyRegistered(reg, plugin_slug) == Has(reg.plugins, plugin_slug)

register_plugin(reg, c) ==
    LET plugin_slug == Classes(c).slug
    IN  IF AlreadyRegistered(reg, plugin_slug)
        THEN reg
        ELSE [plugins |-> Put(reg.plugins, plugin_slug, c),
              importer |-> PutComponents(reg.importer, plugin_slug, c, "importer"),
              preprocessor |-> PutComponents(reg.preprocessor, plugin_slug, c, "preprocessor"),
              postprocessor |-> PutComponents(reg.postprocessor, plugin_slug, c, "postprocessor"),
              datasource |-> PutComponents(reg.datasource, plugin_slug, c, "datasource")]

unregister_plugin(reg, plugin_slug) ==
    IF ~Has(reg.plugins, plugin_slug)
    THEN reg
    ELSE LET c == Get(reg.plugins, plugin_slug)
         IN  [plugins |-> Pop(reg.plugins, plugin_slug),
              importer |-> PopComponents(reg.importer, plugin_slug, c, "importer"),
              preprocessor |-> PopComponents(reg.preprocessor, plugin_slug, c, "preprocessor"),
              postprocessor |-> PopComponents(reg.postprocessor, plugin_slug, c, "postprocessor"),
              datasource |-> PopComponents(reg.datasource, plugin_slug, c, "datasource")]

\* what a lookup returns for a key the map lacks (dict.get's None)
NotFound == <<>>

\* get_importer / get_preprocessor / get_postprocessor / get_datasource
get_component(reg, kind, full_slug) ==
    IF Has(reg[kind], full_slug) THEN Get(reg[kind], full_slug) ELSE NotFound

(***************************************************************************)
(* Dependency resolver.  A requirement string is a sequence of tokens: the *)
(* package name, then (operator, version) pairs, e.g. "requests>=2,<3" is  *)
(* <<"requests", ">=", "2", "<", "3">>.                                     *)
(***************************************************************************)
PackageNames == {"requests", "boto3"}
KnownNames == PackageNames \cup {"httpx"}
SpecifierOps == {">=", "<=", "==", "!=", "<", ">"}
VersionStrings == {"1", "1.9.0", "2", "2.5.0", "3", "3.1"}

\* packaging.version.Version(s).release
Release(s) ==
    CASE s = "1" -> <<1>>
      [] s = "1.9.0" -> <<1, 9, 0>>
      [] s = "2" -> <<2>>
      [] s = "2.5.0" -> <<2, 5, 0>>
      [] s = "3" -> <<3>>
      [] s = "3.1" -> <<3, 1>>

\* release segment i, padded with zeros as packaging does when comparing
Segment(r, i) == IF i <= Len(r) THEN r[i] ELSE 0

\* -1, 0 or 1: Version(a) compared with Version(b)
CompareVersions(a, b) ==
    LET ra == Release(a)
        rb == Release(b)
        n == IF Len(ra) > Len(rb) THEN Len(ra) ELSE Len(rb)
        diff == {i \in 1..n : Segment(ra, i) # Segment(rb, i)}
    IN  IF diff = {} THEN 0
        ELSE LET i == CHOOSE j \in diff : \A k \in diff : j <= k
             IN  IF Segment(ra, i) < Segment(rb, i) THEN -1 ELSE 1

\* packaging.specifiers.Specifier(op + v).contains(installed)
ClauseContains(op, v, installed) ==
    LET c == CompareVersions(installed, v)
    IN  CASE op = ">=" -> c >= 0
          [] op = "<=" -> c <= 0
          [] op = "==" -> c = 0
          [] op = "!=" -> c # 0
          [] op = "<" -> c < 0
          [] op = ">" -> c > 0

\* packaging.requirements.Requirement(requirement_str): the name and the
\* specifier clauses, or a parse failure (InvalidRequirement)
ParseRequirement(req) ==
    IF Len(req) = 0 \/ Len(req) % 2 = 0 \/ req[1] \notin KnownNames
       \/ \E i \in 2..Len(req) : IF i % 2 = 0 THEN req[i] \notin SpecifierOps
                                               ELSE req[i] \notin VersionStrings
    THEN [ok |-> FALSE]
    ELSE [ok |-> TRUE, name |-> req[1],
          specifier |-> {<<req[2 * i], req[2 * i + 1]>> : i \in 1..((Len(req) - 1) \div 2)}]

\* req.specifier.contains(installed_version) accepting a version that meets any clause
SpecifierContains_Any(specifier, installed_version) ==
    \E cl \in specifier : ClauseContains(cl[1], cl[2], installed_version)

\* req.specifier.contains(installed_version): every clause of the set holds
SpecifierContains(specifier, installed_version) ==
    \A cl \in specifier : ClauseContains(cl[1], cl[2], installed_version)

\* importlib.metadata.version(name): None stands for PackageNotFoundError
get_version(host, name) == IF name \in DOMAIN host THEN host[name] ELSE None

\* check_dependency(requirement_str) on a host whose installed-package
\* metadata is host: package name -> version string, or None.  The empty
\* clause set stands for required_version = None.
check_dependency(req, host) ==
    LET r == ParseRequirement(req)
    IN  IF ~r.ok
        THEN [package |-> req, name |-> req, required_version |-> {},
              installed |-> FALSE, installed_version |-> None, satisfied |-> FALSE]
        ELSE IF get_version(host, r.name) = None
             THEN [package |-> req, name |-> r.name,
                   required_version |-> r.specifier,
                   installed |-> FALSE, installed_version |-> None, satisfied |-> FALSE]
             ELSE [package |-> req, name |-> r.name,
                   required_version |-> r.specifier,
                   installed |-> TRUE, installed_version |-> host[r.name],
                   satisfied |-> IF r.specifier # {}
                                 THEN SpecifierContains(r.specifier, host[r.name])
                                 ELSE TRUE]

RequirementStrings ==
    {<<"requests">>, <<"boto3">>, <<>>, <<"requests", ">=">>, <<"httpx", ">=", "1">>,
     <<"requests", ">=", "2", "<", "3">>, <<"requests", "==", "2.5.0">>,
     <<"requests", "!=", "2">>, <<"requests", "<=", "1.9.0">>, <<"requests", ">", "3">>,
     <<"boto3", ">=", "1", "<", "2", "!=", "1.9.0">>, <<"requests", "2", ">=">>}

HostStates == [PackageNames -> {None, "1.9.0", "2", "2.5.0", "3.1"}]

(***************************************************************************)
(* Persistence: Plugin, PluginComponent, PluginInstance, ExecutionLog.     *)
(* plugins is a dictionary slug -> row; components is a set of rows with   *)
(* (plugin, slug) unique; instances maps a row id to its row; logs is the  *)
(* sequence of log rows in creation order.                                 *)
(***************************************************************************)
\* the PluginComponent row an instance points to
ComponentOf(comps, inst) ==
    CHOOSE c \in comps : c.plugin = inst.plugin /\ c.slug = inst.component

\* instance.component.component_type
ComponentType(comps, inst) == ComponentOf(comps, inst).component_type

(***************************************************************************)
(* Executor.  What a capability does when called is an input: b.valid      *)
(* (validate_config() returns no errors), b.outcome ("ok": returns a       *)
(* result with success=True, "fail": returns success=False, "raise": the   *)
(* method raises), b.abort and b.archive (flags of the returned result)    *)
(* and b.helper_raises (the helper call for a requested action raises).    *)
(* Every operator threads st = [logs, trace] and returns                   *)
(* [raised, result, logs, trace].                                          *)
(***************************************************************************)
Behaviours ==
    {[valid |-> TRUE, outcome |-> "ok", abort |-> FALSE, archive |-> FALSE, helper_raises |-> FALSE],
     [valid |-> FALSE, outcome |-> "ok", abort |-> FALSE, archive |-> FALSE, helper_raises |-> FALSE],
     [valid |-> TRUE, outcome |-> "raise", abort |-> FALSE, archive |-> FALSE, helper_raises |-> FALSE],
     [valid |-> TRUE, outcome |-> "fail", abort |-> FALSE, archive |-> TRUE, helper_raises |-> FALSE],
     [valid |-> TRUE, outcome |-> "ok", abort |-> TRUE, archive |-> TRUE, helper_raises |-> FALSE],
     [valid |-> TRUE, outcome |-> "ok", abort |-> FALSE, archive |-> TRUE, helper_raises |-> TRUE]}

Events == {"document_uploaded", "document_approved", "document_rejected",
           "document_archived", "document_updated"}

Ev(name, inst, event) == [ev |-> name, inst |-> inst, event |-> event]

\* PreProcessResult / PostProcessResult / DataSourceSyncResult / ImportResult
Result(success, message) ==
    [success |-> success, abort |-> FALSE, archive |-> FALSE, message |-> message]

\* the result object a capability returns under behaviour b
Returned(b) ==
    [success |-> b.outcome = "ok", abort |-> b.abort, archive |-> b.archive, message |-> "done"]

Out(raised, result, lg, tr) ==
    [raised |-> raised, result |-> result, logs |-> lg, trace |-> tr]

\* PluginExecutionLog.objects.create(instance=..., status=STATUS_STARTED, ...)
LogCreate(lg, id, event) ==
    Append(lg, [instance |-> id, status |-> "started", event_type |-> event, saves |-> 0,
                error_message |-> ""])

\* log.save() without the assignment to log.status before it
LogSave_StatusKept(lg, status) ==
    [lg EXCEPT ![Len(lg)] = [@ EXCEPT !.saves = @ + 1]]

\* log.status = ...; log.save() on the row this run created (the newest one)
LogSave(lg, status) ==
    [lg EXCEPT ![Len(lg)] = [@ EXCEPT !.status = status, !.saves = @ + 1]]

\* "if not instance.enabled" never taken
Disabled_Never(inst) == FALSE

\* "if not instance.enabled"
Disabled(inst) == ~inst.enabled

\* "if instance.event_triggers and event not in instance.event_triggers"
EventFiltered(inst, event) ==
    inst.event_triggers # {} /\ event \notin inst.event_triggers

\* "if instance.collections.exists() and document.collection:
\*      if document.collection not in instance.collections.all()"
CollectionFiltered(inst, d) ==
    inst.collections # {} /\ d.collection # None /\ d.collection \notin inst.collections

\* f"{instance.component.plugin.slug}.{instance.component.slug}"
InstanceFullSlug(inst) == FullSlug(inst.plugin, inst.component)

\* the except branch without its log.save(): the row stays as it was created
Failed_NoSave(id, event, lg, tr, message) ==
    Out(FALSE, Result(FALSE, message), lg, Append(tr, Ev("log_failed", id, event)))

\* the except branch shared by the four entry points: message is str(e),
\* the text of the exception, kept in the row and in the returned result
Failed(id, event, lg, tr, message) ==
    Out(FALSE, Result(FALSE, message),
        [LogSave(lg, "failed") EXCEPT ![Len(lg)].error_message = message],
        Append(tr, Ev("log_failed", id, event)))

execute_importer(reg, comps, insts, id, b, st) ==
    LET inst == insts[id]
    IN  IF ComponentType(comps, inst) # "importer"
        THEN Out(TRUE, <<>>, st.logs, st.trace)
        ELSE IF Disabled(inst)
        THEN Out(FALSE, <<>>, st.logs, st.trace)
        ELSE IF get_component(reg, "importer", InstanceFullSlug(inst)) = NotFound
        THEN Out(FALSE, <<Result(FALSE, "class not found")>>, st.logs,
                 Append(st.trace, Ev("resolve", id, None)))
        ELSE LET lg == LogCreate(st.logs, id, None)
                 t1 == st.trace \o <<Ev("resolve", id, None), Ev("log_create", id, None),
                                     Ev("acquire", id, None), Ev("validate", id, None)>>
             IN  IF ~b.valid
                 THEN LET f == Failed(id, None, lg, Append(t1, Ev("release", id, None)), "config")
                      IN  [f EXCEPT !.result = <<f.result>>]
                 ELSE IF b.outcome = "raise"
                 THEN LET f == Failed(id, None, lg,
                                      t1 \o <<Ev("invoke", id, None), Ev("release", id, None)>>,
                                      "exception")
                      IN  [f EXCEPT !.result = <<f.result>>]
                 ELSE Out(FALSE, <<Returned(b)>>, LogSave(lg, "success"),
                          t1 \o <<Ev("invoke", id, None), Ev("release", id, None),
                                  Ev("log_success", id, None)>>)

execute_preprocessor(reg, comps, insts, id, d, b, st) ==
    LET inst == insts[id]
    IN  IF ComponentType(comps, inst) # "preprocessor"
        THEN Out(TRUE, Result(FALSE, "not a pre-processor"), st.logs, st.trace)
        ELSE IF Disabled(inst)
        THEN Out(FALSE, Result(TRUE, "disabled"), st.logs, st.trace)
        ELSE IF CollectionFiltered(inst, d)
        THEN Out(FALSE, Result(TRUE, "not in collections"), st.logs, st.trace)
        ELSE IF get_component(reg, "preprocessor", InstanceFullSlug(inst)) = NotFound
        THEN Out(FALSE, Result(FALSE, "class not found"), st.logs,
                 Append(st.trace, Ev("resolve", id, None)))
        ELSE LET lg == LogCreate(st.logs, id, None)
                 t1 == st.trace \o <<Ev("resolve", id, None), Ev("log_create", id, None),
                                     Ev("validate", id, None)>>
             IN  IF ~b.valid
                 THEN Failed(id, None, lg, t1, "config")
                 ELSE IF b.outcome = "raise"
                 THEN Failed(id, None, lg, Append(t1, Ev("invoke", id, None)), "exception")
                 ELSE Out(FALSE, Returned(b), LogSave(lg, "success"),
                          t1 \o <<Ev("invoke", id, None), Ev("log_success", id, None)>>)

\* the same body when an exception of doc_helper.archive() skipped __exit__
PostProcessBody_NoExitOnRaise(id, event, b, lg, t1) ==
    IF b.outcome = "raise"
    THEN Failed(id, event, lg, t1 \o <<Ev("invoke", id, event), Ev("release", id, event)>>,
                "exception")
    ELSE LET t2 == Append(t1, Ev("invoke", id, event))
         IN  IF b.archive /\ b.helper_raises
             THEN Failed(id, event, lg, Append(t2, Ev("archive_raised", id, event)), "helper")
             ELSE Out(FALSE, Returned(b), LogSave(lg, "success"),
                      (IF b.archive THEN Append(t2, Ev("archive", id, event)) ELSE t2)
                          \o <<Ev("release", id, event), Ev("log_success", id, event)>>)

\* the body of "with AffindaDocumentHelper() as doc_helper:" after validation
PostProcessBody(id, event, b, lg, t1) ==
    IF b.outcome = "raise"
    THEN Failed(id, event, lg, t1 \o <<Ev("invoke", id, event), Ev("release", id, event)>>,
                "exception")
    ELSE LET t2 == Append(t1, Ev("invoke", id, event))
         IN  IF b.archive /\ b.helper_raises
             THEN Failed(id, event, lg,
                         t2 \o <<Ev("archive_raised", id, event), Ev("release", id, event)>>,
                         "helper")
             ELSE Out(FALSE, Returned(b), LogSave(lg, "success"),
                      (IF b.archive THEN Append(t2, Ev("archive", id, event)) ELSE t2)
                          \o <<Ev("release", id, event), Ev("log_success", id, event)>>)

execute_postprocessor(reg, comps, insts, id, d, event, b, st) ==
    LET inst == insts[id]
    IN  IF ComponentType(comps, inst) # "postprocessor"
        THEN Out(TRUE, Result(FALSE, "not a post-processor"), st.logs, st.trace)
        ELSE IF Disabled(inst)
        THEN Out(FALSE, Result(TRUE, "disabled"), st.logs, st.trace)
        ELSE IF EventFiltered(inst, event)
        THEN Out(FALSE, Result(TRUE, "event not in triggers"), st.logs, st.trace)
        ELSE IF CollectionFiltered(inst, d)
        THEN Out(FALSE, Result(TRUE, "not in collections"), st.logs, st.trace)
        ELSE IF get_component(reg, "postprocessor", InstanceFullSlug(inst)) = NotFound
        THEN Out(FALSE, Result(FALSE, "class not found"), st.logs,
                 Append(st.trace, Ev("resolve", id, event)))
        ELSE LET lg == LogCreate(st.logs, id, event)
                 t1 == st.trace \o <<Ev("resolve", id, event), Ev("log_create", id, event),
                                     Ev("acquire", id, event), Ev("validate", id, event)>>
             IN  IF ~b.valid
                 THEN Failed(id, event, lg, Append(t1, Ev("release", id, event)), "config")
                 ELSE PostProcessBody(id, event, b, lg, t1)

execute_datasource(reg, comps, insts, id, b, st) ==
    LET inst == insts[id]
    IN  IF ComponentType(comps, inst) # "datasource"
        THEN Out(TRUE, Result(FALSE, "not a data source"), st.logs, st.trace)
        ELSE IF Disabled(inst)
        THEN Out(FALSE, Result(TRUE, "disabled"), st.logs, st.trace)
        ELSE IF inst.affinda_data_source = ""
        THEN Out(FALSE, Result(FALSE, "no data source configured"), st.logs, st.trace)
        ELSE IF get_component(reg, "datasource", InstanceFullSlug(inst)) = NotFound
        THEN Out(FALSE, Result(FALSE, "class not found"), st.logs,
                 Append(st.trace, Ev("resolve", id, None)))
        ELSE LET lg == LogCreate(st.logs, id, None)
                 t1 == st.trace \o <<Ev("resolve", id, None), Ev("log_create", id, None),
                                     Ev("acquire", id, None), Ev("validate", id, None)>>
             IN  IF ~b.valid
                 THEN Failed(id, None, lg, Append(t1, Ev("release", id, None)), "config")
                 ELSE IF b.outcome = "raise"
                 THEN Failed(id, None, lg,
                             t1 \o <<Ev("invoke", id, None), Ev("release", id, None)>>,
                             "exception")
                 ELSE Out(FALSE, Returned(b),
                          LogSave(lg, IF b.outcome = "ok" THEN "success" ELSE "failed"),
                          t1 \o <<Ev("invoke", id, None), Ev("release", id, None),
                                  Ev(IF b.outcome = "ok" THEN "log_success" ELSE "log_failed",
                                     id, None)>>)

\* PluginInstance.objects.filter(enabled=True, component__component_type=kind,
\*                                component__plugin__enabled=True)
ChainCandidates(plugs, comps, insts, kind) ==
    {id \in DOMAIN insts :
        /\ insts[id].enabled
        /\ ComponentType(comps, insts[id]) = kind
        /\ Get(plugs, insts[id].plugin).enabled}

\* .order_by('priority'): every order of the rows with ascending priority
\* (the database breaks ties between equal priorities as it likes)
OrderByPriority(insts, ids) ==
    {o \in [1..Cardinality(ids) -> ids] :
        /\ \A i, j \in DOMAIN o : i # j => o[i] # o[j]
        /\ \A i, j \in DOMAIN o : i < j => insts[o[i]].priority <= insts[o[j]].priority}

ChainStart(st) == [results |-> <<>>, ran |-> <<>>, logs |-> st.logs, trace |-> st.trace]

ChainAdd(acc, id, r) ==
    [results |-> Append(acc.results, IF r.raised THEN Result(FALSE, "exception") ELSE r.result),
     ran |-> Append(acc.ran, id), logs |-> r.logs, trace |-> r.trace]

\* the post-processor loop ending at the first failed result
PostChainStops_OnFailure(result) == ~result.success

\* the post-processor loop has no break: it always goes on to the next instance
PostChainStops(result) == FALSE

RECURSIVE PostLoop(_, _, _, _, _, _, _, _, _)
PostLoop(reg, comps, insts, d, event, behs, order, i, acc) ==
    IF i > Len(order)
    THEN acc
    ELSE IF EventFiltered(insts[order[i]], event)
    THEN PostLoop(reg, comps, insts, d, event, behs, order, i + 1, acc)
    ELSE LET r == execute_postprocessor(reg, comps, insts, order[i], d, event, behs[order[i]],
                                        [logs |-> acc.logs, trace |-> acc.trace])
             next == ChainAdd(acc, order[i], r)
         IN  IF PostChainStops(next.results[Len(next.results)])
             THEN next
             ELSE PostLoop(reg, comps, insts, d, event, behs, order, i + 1, next)

\* execute_postprocessors(document, event); order is the query's row order
execute_postprocessors(reg, comps, insts, d, event, behs, order, st) ==
    PostLoop(reg, comps, insts, d, event, behs, order, 1, ChainStart(st))

\* "if result.abort: break" never taken
PreChainStops_Never(result) == FALSE

\* "if result.abort: ... break"
PreChainStops(result) == result.abort

RECURSIVE PreLoop(_, _, _, _, _, _, _, _)
PreLoop(reg, comps, insts, d, behs, order, i, acc) ==
    IF i > Len(order)
    THEN acc
    ELSE LET r == execute_preprocessor(reg, comps, insts, order[i], d, behs[order[i]],
                                       [logs |-> acc.logs, trace |-> acc.trace])
             next == ChainAdd(acc, order[i], r)
         IN  IF ~r.raised /\ PreChainStops(r.result)
             THEN next
             ELSE PreLoop(reg, comps, insts, d, behs, order, i + 1, next)

\* execute_preprocessors(document); order is the query's row order
execute_preprocessors(reg, comps, insts, d, behs, order, st) ==
    PreLoop(reg, comps, insts, d, behs, order, 1, ChainStart(st))

(***************************************************************************)
(* Event dispatcher (signals.py).  old is the row track_document_changes   *)
(* read before the write (NoDoc for a row without primary key), new the    *)
(* row as written.                                                         *)
(***************************************************************************)
\* "if new_is_confirmed and not old_is_confirmed" with the old flag required
FiresApproved_OldRequired(old, new) == new.is_confirmed /\ old.is_confirmed

\* "if new_is_confirmed and not old_is_confirmed"
FiresApproved(old, new) == new.is_confirmed /\ ~old.is_confirmed

\* "if new_state == Document.STATE_ARCHIVED" without the comparison with the old state
FiresArchived_OldIgnored(old, new) == new.state = "archived"

\* "if new_state == Document.STATE_ARCHIVED and old_state != Document.STATE_ARCHIVED"
FiresArchived(old, new) == new.state = "archived" /\ old.state # "archived"

\* "if instance.failed and not getattr(instance, '_old_failed', False)":
\* nothing ever sets _old_failed, so getattr returns its default
FiresRejected(old, new) == new.failed /\ ~FALSE

\* emit_document_signals without the "return" that ends the created branch
\* (the old values are None on creation)
FiredEvents_NoReturn(old, new, created) ==
    IF created
    THEN <<"document_uploaded">>
         \o (IF new.is_confirmed THEN <<"document_approved">> ELSE <<>>)
         \o (IF new.state = "archived" THEN <<"document_archived">> ELSE <<>>)
         \o (IF new.failed THEN <<"document_rejected">> ELSE <<>>)
    ELSE (IF new.is_confirmed /\ ~old.is_confirmed THEN <<"document_approved">> ELSE <<>>)
         \o (IF new.state = "archived" /\ old.state # "archived"
             THEN <<"document_archived">> ELSE <<>>)
         \o (IF new.failed THEN <<"document_rejected">> ELSE <<>>)
         \o <<"document_updated">>

\* the events emit_document_signals fires for one write, in firing order
FiredEvents(old, new, created) ==
    IF created
    THEN <<"document_uploaded">>
    ELSE (IF FiresApproved(old, new) THEN <<"document_approved">> ELSE <<>>)
         \o (IF FiresArchived(old, new) THEN <<"document_archived">> ELSE <<>>)
         \o (IF FiresRejected(old, new) THEN <<"document_rejected">> ELSE <<>>)
         \o <<"document_updated">>

RECURSIVE FireLoop(_, _, _, _, _, _, _, _, _)
FireLoop(reg, comps, insts, d, events, behs, order, i, st) ==
    IF i > Len(events)
    THEN st
    ELSE LET c == execute_postprocessors(reg, comps, insts, d, events[i], behs, order,
                      [logs |-> st.logs, trace |-> Append(st.trace, Ev("fire", 0, events[i]))])
         IN  FireLoop(reg, comps, insts, d, events, behs, order, i + 1,
                      [logs |-> c.logs, trace |-> c.trace])

\* emit_document_signals(sender, instance, created)
emit_document_signals(reg, comps, insts, old, new, created, behs, order, st) ==
    FireLoop(reg, comps, insts, new, FiredEvents(old, new, created), behs, order, 1, st)

(***************************************************************************)
(* State shared by the specifications.                                     *)
(***************************************************************************)
NoDoc == [exists |-> FALSE]
NoDep == [checked |-> FALSE]
NoOp == [op |-> "none"]

\* PluginRegistry.__init__ and empty tables
InitEmpty ==
    /\ registry = EmptyRegistry
    /\ sources = {}
    /\ plugins = {}
    /\ components = {}
    /\ instances = <<>>
    /\ logs = <<>>
    /\ cache = {}
    /\ doc = NoDoc
    /\ dep = NoDep
    /\ last = NoOp

(***************************************************************************)
(* Rows written by the install paths.                                      *)
(***************************************************************************)
\* Plugin.objects.create(...) for plugin class c
PluginRow(c, source, source_path, enabled) ==
    [version |-> Classes(c).version, enabled |-> enabled, source |-> source,
     source_path |-> source_path,
     installed_version |-> IF source = None THEN "" ELSE Classes(c).version,
     available_version |-> "", update_available |-> FALSE]

\* the PluginComponent rows of plugin class c under the Plugin row plugin_slug
ComponentRows(plugin_slug, c) ==
    UNION {{[plugin |-> plugin_slug, component_type |-> k, slug |-> sl] :
                sl \in Range(Classes(c).comps[k])} : k \in Kinds}

\* a PluginInstance row
Instance(plugin, component, enabled, priority, triggers, collections, ads) ==
    [plugin |-> plugin, component |-> component, enabled |-> enabled, priority |-> priority,
     event_triggers |-> triggers, collections |-> collections, affinda_data_source |-> ads]

(***************************************************************************)
(* The database and registry the executor runs against: the Example and    *)
(* Sync plugins discovered at startup and installed from the registry, and *)
(* plugin "wc" installed from source "acme" (row slug "acme.wc").          *)
(***************************************************************************)
MaxInstances == 2
MaxRuns == 1

Collections == {"c1", "c2"}

ExecRegistry ==
    register_plugin(register_plugin(register_plugin(EmptyRegistry, "Example"), "Sync"), "WcV1")

ExecPlugins(example_enabled) ==
    {<<Classes("Example").slug, PluginRow("Example", None, "", example_enabled)>>,
     <<Classes("Sync").slug, PluginRow("Sync", None, "", TRUE)>>,
     <<<<"acme", "wc">>, PluginRow("WcV1", "acme", "plugins/wc", TRUE)>>}

ExecComponents ==
    ComponentRows(Classes("Example").slug, "Example")
        \cup ComponentRows(Classes("Sync").slug, "Sync")
        \cup ComponentRows(<<"acme", "wc">>, "WcV1")

\* the instance under call in the single-instance entry points
EntryInstances ==
    {Instance(c.plugin, c.slug, en, 100, tr, co, ads) :
        c \in {x \in ExecComponents : x.slug # "archive-on-approval"}, en \in BOOLEAN,
        tr \in {{}, {"document_approved"}}, co \in {{}, {"c1"}}, ads \in {"", "sink"}}

\* pre-processor instances: runnable ones at three priorities, a disabled one,
\* one restricted to collection c1, and one whose class the registry lacks
PreInstances ==
    {Instance(<<"example-plugin">>, "custom-id-generator", TRUE, p, {}, {}, "") : p \in {1, 2, 3}}
        \cup {Instance(<<"example-plugin">>, "custom-id-generator", FALSE, 2, {}, {}, ""),
              Instance(<<"example-plugin">>, "custom-id-generator", TRUE, 1, {}, {"c1"}, ""),
              Instance(<<"acme", "wc">>, "clean", TRUE, 1, {}, {}, "")}

\* post-processor instances: a runnable one triggered by "approved", a
\* disabled one, one with no trigger set, one triggered by "updated" only,
\* one restricted to collection c1, and one whose class the registry lacks
PostInstances ==
    {Instance(<<"example-plugin">>, "webhook-notifier", TRUE, 1, {"document_approved"}, {}, ""),
     Instance(<<"example-plugin">>, "webhook-notifier", FALSE, 1, {"document_approved"}, {}, ""),
     Instance(<<"example-plugin">>, "archive-on-approval", TRUE, 2, {}, {}, ""),
     Instance(<<"example-plugin">>, "webhook-notifier", TRUE, 1, {"document_updated"}, {}, ""),
     Instance(<<"example-plugin">>, "webhook-notifier", TRUE, 3,
              {"document_approved", "document_updated"}, {"c1"}, ""),
     Instance(<<"acme", "wc">>, "count", TRUE, 1, {"document_approved"}, {}, "")}

\* instance tables with at most MaxInstances rows drawn from S
Tables(S) == UNION {[1..n -> S] : n \in 0..MaxInstances}

Document(collection, state, is_confirmed, failed) ==
    [exists |-> TRUE, collection |-> collection, state |-> state,
     is_confirmed |-> is_confirmed, failed |-> failed]

InitExec(tables, docs) ==
    /\ registry = ExecRegistry
    /\ sources = {}
    /\ \E en \in BOOLEAN : plugins = ExecPlugins(en)
    /\ components = ExecComponents
    /\ instances \in tables
    /\ logs = <<>>
    /\ cache = {}
    /\ doc \in docs
    /\ dep = NoDep
    /\ last = [op |-> "none", n |-> 0]

\* an operation starts from the log table as it is, with nothing recorded yet
Fresh == [logs |-> logs, trace |-> <<>>]

(***************************************************************************)
(* Executor entry points, called on a persisted instance and document.     *)
(***************************************************************************)
ExecuteImporter(id, b) ==
    /\ last.n < MaxRuns
    /\ LET r == execute_importer(registry, components, instances, id, b, Fresh)
       IN  /\ logs' = r.logs
           /\ last' = [op |-> "execute_importer", n |-> last.n + 1, inst |-> id, beh |-> b,
                       raised |-> r.raised,
                       results |-> r.result, trace |-> r.trace]
    /\ UNCHANGED <<registry, sources, plugins, components, instances, cache, doc, dep>>

ExecutePreprocessor(id, b) ==
    /\ last.n < MaxRuns
    /\ LET r == execute_preprocessor(registry, components, instances, id, doc, b, Fresh)
       IN  /\ logs' = r.logs
           /\ last' = [op |-> "execute_preprocessor", n |-> last.n + 1, inst |-> id, beh |-> b,
                       raised |-> r.raised,
                       results |-> <<r.result>>, trace |-> r.trace]
    /\ UNCHANGED <<registry, sources, plugins, components, instances, cache, doc, dep>>

ExecutePostprocessor(id, event, b) ==
    /\ last.n < MaxRuns
    /\ LET r == execute_postprocessor(registry, components, instances, id, doc, event, b, Fresh)
       IN  /\ logs' = r.logs
           /\ last' = [op |-> "execute_postprocessor", n |-> last.n + 1, inst |-> id, beh |-> b,
                       raised |-> r.raised,
                       results |-> <<r.result>>, trace |-> r.trace]
    /\ UNCHANGED <<registry, sources, plugins, components, instances, cache, doc, dep>>

ExecuteDatasource(id, b) ==
    /\ last.n < MaxRuns
    /\ LET r == execute_datasource(registry, components, instances, id, b, Fresh)
       IN  /\ logs' = r.logs
           /\ last' = [op |-> "execute_datasource", n |-> last.n + 1, inst |-> id, beh |-> b,
                       raised |-> r.raised,
                       results |-> <<r.result>>, trace |-> r.trace]
    /\ UNCHANGED <<registry, sources, plugins, components, instances, cache, doc, dep>>

NextEntry ==
    \/ \E id \in DOMAIN instances, b \in Behaviours : ExecuteImporter(id, b)
    \/ \E id \in DOMAIN instances, b \in Behaviours : ExecutePreprocessor(id, b)
    \/ \E id \in DOMAIN instances, b \in Behaviours,
          e \in {"document_approved", "document_updated"} : ExecutePostprocessor(id, e, b)
    \/ \E id \in DOMAIN instances, b \in Behaviours : ExecuteDatasource(id, b)

InitEntry ==
    InitExec([{1} -> EntryInstances],
             {Document(c, "review", FALSE, FALSE) : c \in Collections \cup {None}})

SpecEntry == InitEntry /\ [][NextEntry]_vars

(***************************************************************************)
(* Chains and the dispatcher.  behs gives the behaviour the capability of  *)
(* each instance shows during the operation, order the row order of the    *)
(* chain's query.                                                          *)
(***************************************************************************)
ExecutePreprocessors(behs, order) ==
    /\ last.n < MaxRuns
    /\ doc.exists
    /\ LET c == execute_preprocessors(registry, components, instances, doc, behs, order, Fresh)
       IN  /\ logs' = c.logs
           /\ last' = [op |-> "execute_preprocessors", n |-> last.n + 1,
                       before |-> Len(logs), behs |-> behs, order |-> order,
                       event |-> None, results |-> c.results, ran |-> c.ran, trace |-> c.trace]
    /\ UNCHANGED <<registry, sources, plugins, components, instances, cache, doc, dep>>

ExecutePostprocessors(event, behs, order) ==
    /\ last.n < MaxRuns
    /\ doc.exists
    /\ LET c == execute_postprocessors(registry, components, instances, doc, event, behs,
                                       order, Fresh)
       IN  /\ logs' = c.logs
           /\ last' = [op |-> "execute_postprocessors", n |-> last.n + 1,
                       before |-> Len(logs), behs |-> behs, order |-> order,
                       event |-> event, results |-> c.results, ran |-> c.ran,
                       trace |-> c.trace]
    /\ UNCHANGED <<registry, sources, plugins, components, instances, cache, doc, dep>>

\* Document.save(): pre_save reads the old row, the row is written, post_save
\* emits the events
SaveDocument(new, behs, order) ==
    /\ last.n < MaxRuns
    /\ doc.exists => new.collection = doc.collection
    /\ LET created == ~doc.exists
           old == IF created THEN new ELSE doc
           st == emit_document_signals(registry, components, instances, old, new, created,
                                       behs, order, Fresh)
       IN  /\ logs' = st.logs
           /\ last' = [op |-> "save", n |-> last.n + 1, behs |-> behs, order |-> order, created |-> created,
                       old |-> old, new |-> new, trace |-> st.trace]
    /\ doc' = new
    /\ UNCHANGED <<registry, sources, plugins, components, instances, cache, dep>>

Documents ==
    {Document(c, st, ic, f) : c \in Collections \cup {None}, st \in {"review", "archived"},
                              ic \in BOOLEAN, f \in BOOLEAN}

\* the rows the chain's query selects, and the orders it may return them in
Candidates(kind) == ChainCandidates(plugins, components, instances, kind)

Orders(kind) == OrderByPriority(instances, Candidates(kind))

\* what a pre-processor may do in a chain: succeed, have an invalid
\* configuration, raise, or ask for the chain to be aborted
PreBehaviours == {b \in Behaviours : b.outcome # "fail" /\ ~b.helper_raises}

\* what a post-processor may do in a fan-out: succeed, have an invalid
\* configuration, raise, or report failure while asking for an archive
PostBehaviours == {b \in Behaviours : ~b.abort /\ ~b.helper_raises}

NextPre ==
    \E behs \in [Candidates("preprocessor") -> PreBehaviours], order \in Orders("preprocessor") :
        ExecutePreprocessors(behs, order)

InitPre ==
    InitExec(Tables(PreInstances),
             {Document(c, "review", FALSE, FALSE) : c \in Collections \cup {None}})

SpecPre == InitPre /\ [][NextPre]_vars

NextPost ==
    \/ \E behs \in [Candidates("postprocessor") -> PostBehaviours],
          order \in Orders("postprocessor"),
          e \in {"document_uploaded", "document_approved", "document_updated"} :
              ExecutePostprocessors(e, behs, order)
    \/ \E behs \in [Candidates("postprocessor") -> PostBehaviours],
          order \in Orders("postprocessor"),
          new \in Documents : SaveDocument(new, behs, order)

InitPost ==
    InitExec(Tables(PostInstances),
             {NoDoc} \cup {Document(c, "review", ic, FALSE) :
                               c \in Collections \cup {None}, ic \in BOOLEAN})

SpecPost == InitPost /\ [][NextPost]_vars

\* Document.save() on any persisted document, or on a new one, with up to two
\* post-processor instances listening: one for every event (no trigger set)
\* and one for "approved" and "rejected"
InitSave ==
    InitExec(UNION {[1..n -> {Instance(<<"example-plugin">>, "archive-on-approval", TRUE, 2,
                                       {}, {}, ""),
                              Instance(<<"example-plugin">>, "webhook-notifier", TRUE, 1,
                                       {"document_approved", "document_rejected"}, {}, "")}] :
                        n \in {0, 1, 2}},
             {NoDoc} \cup Documents)

\* the listening post-processors succeed or raise
NextSave ==
    \E behs \in [Candidates("postprocessor") -> {b \in PostBehaviours : b.valid /\ ~b.archive}],
       order \in Orders("postprocessor"),
       new \in Documents : SaveDocument(new, behs, order)

SpecSave == InitSave /\ [][NextSave]_vars

(***************************************************************************)
(* Plugin sources (source_manager.py).  A manifest is what fetch_manifest   *)
(* returned: its type, the top-level slug and version, and the entries of  *)
(* a multi-plugin manifest.  Slugs in a manifest are single tokens.        *)
(***************************************************************************)
Manifest(mtype, slug, version, entries) ==
    [mtype |-> mtype, slug |-> slug, version |-> version, plugins |-> entries]

\* "return {}": neither manifest file nor a plugin.py at the root
NoManifest == Manifest("none", "", "", {})

Entry(slug, version, path) == [slug |-> slug, version |-> version, path |-> path]

\* what a repository may hold when it is fetched
Manifests ==
    {NoManifest,
     Manifest("multi", "", "", {Entry("wc", "1.0.0", "plugins/wc"), Entry("dup", "1.0.0", "plugins/dup")}),
     Manifest("multi", "", "", {Entry("wc", "2.0.0", "plugins/wc")}),
     Manifest("single", "wc", "1.0.0", {}),
     Manifest("inferred", "acme-plugins", "", {})}

\* get_handler_for_url
UrlKinds == {"github", "direct", "unknown"}

\* a URL: its text, what get_handler_for_url makes of it, and the slug the
\* create view derives from its first two path parts
Url(address, kind, slug) == [address |-> address, kind |-> kind, slug |-> slug]

\* the URLs an operator may submit
Urls ==
    {Url("https://github.com/acme/plugins", "github", "acme-plugins"),
     Url("https://gitlab.com/acme/plugins", "unknown", "acme-plugins"),
     Url("https://example.org/dist/plugins.zip", "direct", "dist-pluginszip")}

\* a user-added PluginSource row as the model's defaults leave it; the two
\* timestamps are 0 while null
SourceRow(url, manifest, error) ==
    [url |-> url.address, url_kind |-> url.kind, source_type |-> "user", enabled |-> TRUE,
     manifest_data |-> manifest, is_multi_plugin |-> manifest.mtype = "multi",
     latest_version |-> manifest.version, error_message |-> error,
     last_checked_at |-> 0, last_fetched_at |-> 0]

\* fetch_source(source) at time now, with remote the answer of the repository
fetch_source(srcs, source_slug, remote, now) ==
    LET row == Get(srcs, source_slug)
        fails(msg) == [raised |-> TRUE, manifest |-> NoManifest,
                       sources |-> Put(srcs, source_slug,
                                       [row EXCEPT !.error_message = msg,
                                                   !.last_checked_at = now])]
    IN  IF row.url_kind = "unknown"
        THEN [raised |-> TRUE, manifest |-> NoManifest, sources |-> srcs]
        ELSE IF row.url_kind # "github"
        THEN fails("direct url")
        ELSE IF remote = NoManifest
        THEN fails("no manifest")
        ELSE [raised |-> FALSE, manifest |-> remote,
              sources |-> Put(srcs, source_slug,
                              [row EXCEPT !.is_multi_plugin = remote.mtype = "multi",
                                          !.manifest_data = remote,
                                          !.latest_version = remote.version,
                                          !.last_fetched_at = now,
                                          !.last_checked_at = now,
                                          !.error_message = ""])]

\* the last dot-separated part of a plugin row's slug
\* "plugin.slug.split('.')[-1] if '.' in plugin.slug else plugin.slug"
LastPart(slug) == slug[Len(slug)]

\* get_available_plugins(source): the entries it lists, without the
\* installed flags it adds for display
get_available_plugins(srcs, source_slug) ==
    LET manifest == Get(srcs, source_slug).manifest_data
    IN  IF manifest.mtype = "multi"
        THEN manifest.plugins
        ELSE IF manifest.mtype \in {"single", "inferred"}
        THEN {Entry(manifest.slug, manifest.version, "")}
        ELSE {}

\* the installed flags get_available_plugins adds to the entries it lists: a
\* multi manifest's entry is matched with
\* Plugin.objects.filter(source=source, slug__endswith=entry slug).first(),
\* the entry of a single or inferred manifest with
\* Plugin.objects.filter(source=source).first().  No slug of a manifest is a
\* proper suffix of another here, so a row's slug ends with the entry's slug
\* when its last part is that slug.  first() follows the rows' names, which
\* are not kept: every matching row may be the first.
installed_status(srcs, plugs, source_slug) ==
    LET manifest == Get(srcs, source_slug).manifest_data
        of_source == {e \in plugs : e[2].source = source_slug}
        matches(entry) == IF manifest.mtype = "multi"
                          THEN {e \in of_source : LastPart(e[1]) = entry.slug}
                          ELSE of_source
    IN  UNION {IF matches(entry) = {}
               THEN {[slug |-> entry.slug, installed |-> FALSE, installed_version |-> ""]}
               ELSE {[slug |-> entry.slug, installed |-> TRUE,
                      installed_version |-> e[2].installed_version] : e \in matches(entry)} :
                   entry \in get_available_plugins(srcs, source_slug)}

\* next((p for p in available if p.get('slug') == plugin_slug), None)
PluginInfo(srcs, source_slug, plugin_slug) ==
    {e \in get_available_plugins(srcs, source_slug) : e.slug = plugin_slug}

\* what download_directory leaves in the plugin's cache directory: "fail"
\* (no archive: it returns False), "broken" (files load_plugin_from_path
\* cannot load), or the plugin class the files define
Downloads == {"fail", "broken", "WcV1", "WcV2", "AcmeWc", "Dup", "Blank"}

\* _get_plugin_cache_dir(source, plugin_slug)
CacheDir(source_slug, plugin_slug) == <<source_slug, plugin_slug>>

\* the components a plugin class declares, in the order
\* _register_plugin_components creates their rows
Declared(c) ==
    LET of(k) == [i \in DOMAIN Classes(c).comps[k] |->
                      [component_type |-> k, slug |-> Classes(c).comps[k][i]]]
    IN  of("importer") \o of("preprocessor") \o of("postprocessor") \o of("datasource")

\* UniqueConstraint(fields=['plugin', 'slug']) refuses the row
Duplicate(comps, row) == \E x \in comps : x.plugin = row.plugin /\ x.slug = row.slug

\* _register_plugin_components(plugin, plugin_class): the rows are created
\* one by one, each committed at once; a refused row raises IntegrityError
\* and leaves the earlier ones
RECURSIVE CreateComponents(_, _, _, _)
CreateComponents(comps, plugin_slug, todo, i) ==
    IF i > Len(todo)
    THEN [raised |-> FALSE, components |-> comps]
    ELSE LET row == [plugin |-> plugin_slug, component_type |-> todo[i].component_type,
                     slug |-> todo[i].slug]
         IN  IF Duplicate(comps, row)
             THEN [raised |-> TRUE, components |-> comps]
             ELSE CreateComponents(comps \cup {row}, plugin_slug, todo, i + 1)

register_plugin_components(comps, plugin_slug, c) ==
    CreateComponents(comps, plugin_slug, Declared(c), 1)

\* the database, cache and registry an operation of the manager leaves
Db(result, downloaded, srcs, plugs, comps, insts, cch, reg) ==
    [result |-> result, downloaded |-> downloaded, sources |-> srcs, plugins |-> plugs,
     components |-> comps, instances |-> insts, cache |-> cch, registry |-> reg]

\* "if existing" never taken
AlreadyInstalled_Never(plugs, full_slug) == FALSE

\* Plugin.objects.filter(slug=full_slug).first() is a row
AlreadyInstalled(plugs, full_slug) == Has(plugs, full_slug)

install_plugin(srcs, plugs, comps, insts, cch, reg, source_slug, plugin_slug, dl) ==
    LET full_slug == <<source_slug, plugin_slug>>
        dir == CacheDir(source_slug, plugin_slug)
        info == PluginInfo(srcs, source_slug, plugin_slug)
        emptied == Put(cch, dir, "empty")
        entry == CHOOSE e \in info : TRUE
    IN  IF info = {}
        THEN Db("not_found", FALSE, srcs, plugs, comps, insts, cch, reg)
        ELSE IF AlreadyInstalled(plugs, full_slug)
        THEN Db("already_installed", FALSE, srcs, plugs, comps, insts, cch, reg)
        ELSE IF Get(srcs, source_slug).url_kind # "github"
        THEN Db("unsupported", FALSE, srcs, plugs, comps, insts, emptied, reg)
        ELSE IF dl = "fail"
        THEN Db("download_failed", TRUE, srcs, plugs, comps, insts, emptied, reg)
        ELSE IF dl = "broken"
        THEN Db("load_failed", TRUE, srcs, plugs, comps, insts, Pop(cch, dir), reg)
        ELSE IF Has(plugs, full_slug)
        THEN Db("integrity_error", TRUE, srcs, plugs, comps, insts, Put(cch, dir, dl), reg)
        ELSE LET plugs2 == Put(plugs, full_slug, PluginRow(dl, source_slug, entry.path, TRUE))
                 created == register_plugin_components(comps, full_slug, dl)
             IN  IF created.raised
                 THEN Db("integrity_error", TRUE, srcs, plugs2, created.components, insts,
                         Put(cch, dir, dl), reg)
                 ELSE Db("ok", TRUE, srcs, plugs2, created.components, insts,
                         Put(cch, dir, dl), register_plugin(reg, dl))

\* on_delete=CASCADE from PluginComponent to PluginInstance: the instances
\* left when every component of plugin_slug is deleted
CascadeInstances(insts, plugin_slug) ==
    [id \in {x \in DOMAIN insts : insts[x].plugin # plugin_slug} |-> insts[id]]

\* on_delete=CASCADE from PluginInstance to PluginExecutionLog
CascadeLogs(lg, insts) == SelectSeq(lg, LAMBDA row : row.instance \in DOMAIN insts)

\* "if available_version == plugin.installed_version" never taken
UpToDate_Never(available_version, row) == FALSE

\* "if available_version == plugin.installed_version"
UpToDate(available_version, row) == available_version = row.installed_version

update_plugin(srcs, plugs, comps, insts, cch, reg, slug, remote, dl, now) ==
    LET row == Get(plugs, slug)
        fetched == fetch_source(srcs, row.source, remote, now)
        srcs2 == fetched.sources
        plugin_slug == LastPart(slug)
        dir == CacheDir(row.source, plugin_slug)
        info == PluginInfo(srcs2, row.source, plugin_slug)
        entry == CHOOSE e \in info : TRUE
        removed == Pop(cch, dir)
    IN  IF row.source = None
        THEN Db("no_source", FALSE, srcs, plugs, comps, insts, cch, reg)
        ELSE IF fetched.raised
        THEN Db("fetch_failed", FALSE, srcs2, plugs, comps, insts, cch, reg)
        ELSE IF info = {}
        THEN Db("unavailable", FALSE, srcs2, plugs, comps, insts, cch, reg)
        ELSE IF UpToDate(entry.version, row)
        THEN Db("no_update", FALSE, srcs2, plugs, comps, insts, cch, reg)
        ELSE IF dl = "fail"
        THEN Db("download_failed", TRUE, srcs2, plugs, comps, insts, removed, reg)
        ELSE IF dl = "broken"
        THEN Db("load_failed", TRUE, srcs2, plugs, comps, insts, Put(cch, dir, dl), reg)
        ELSE LET plugs2 == Put(plugs, slug,
                               [row EXCEPT !.version = Classes(dl).version,
                                           !.installed_version = Classes(dl).version,
                                           !.available_version = "",
                                           !.update_available = FALSE])
                 kept == {x \in comps : x.plugin # slug}
                 insts2 == CascadeInstances(insts, slug)
                 created == register_plugin_components(kept, slug, dl)
             IN  IF created.raised
                 THEN Db("integrity_error", TRUE, srcs2, plugs2, created.components, insts2,
                         Put(cch, dir, dl), reg)
                 ELSE Db("updated", TRUE, srcs2, plugs2, created.components, insts2,
                         Put(cch, dir, dl), register_plugin(reg, dl))

uninstall_plugin(srcs, plugs, comps, insts, cch, reg, slug) ==
    LET row == Get(plugs, slug)
    IN  Db("uninstalled", FALSE, srcs, Pop(plugs, slug), {x \in comps : x.plugin # slug},
           CascadeInstances(insts, slug),
           IF row.source = None THEN cch ELSE Pop(cch, CacheDir(row.source, LastPart(slug))),
           unregister_plugin(reg, slug))

check_for_updates(srcs, plugs, comps, insts, cch, reg, slug, remote, now) ==
    LET row == Get(plugs, slug)
        fetched == fetch_source(srcs, row.source, remote, now)
        srcs2 == fetched.sources
        info == PluginInfo(srcs2, row.source, LastPart(slug))
        entry == CHOOSE e \in info : TRUE
    IN  IF row.source = None
        THEN Db(None, FALSE, srcs, plugs, comps, insts, cch, reg)
        ELSE IF fetched.raised \/ info = {}
        THEN Db(None, FALSE, srcs2, plugs, comps, insts, cch, reg)
        ELSE IF entry.version # "" /\ entry.version # row.installed_version
        THEN Db(entry.version, FALSE, srcs2,
                Put(plugs, slug, [row EXCEPT !.available_version = entry.version,
                                             !.update_available = TRUE]),
                comps, insts, cch, reg)
        ELSE Db(None, FALSE, srcs2,
                Put(plugs, slug, [row EXCEPT !.available_version = "",
                                             !.update_available = FALSE]),
                comps, insts, cch, reg)

(***************************************************************************)
(* The source manager's operations on the database, cache and registry.    *)
(* At the start one source exists, a GitHub repository not fetched yet,    *)
(* and nothing is installed.                                               *)
(***************************************************************************)
MaxOps == 4

InitSM ==
    /\ registry = EmptyRegistry
    /\ sources = {<<"acme", SourceRow(Url("https://github.com/acme/wc", "github", "acme-wc"),
                                      NoManifest, "")>>}
    /\ plugins = {}
    /\ components = {}
    /\ instances = <<>>
    /\ logs = <<>>
    /\ cache = {}
    /\ doc = NoDoc
    /\ dep = NoDep
    /\ last = [op |-> "none", n |-> 0]

\* the state a manager operation leaves
Commit(db) ==
    /\ sources' = db.sources
    /\ plugins' = db.plugins
    /\ components' = db.components
    /\ instances' = db.instances
    /\ logs' = CascadeLogs(logs, db.instances)
    /\ cache' = db.cache
    /\ registry' = db.registry
    /\ UNCHANGED <<doc, dep>>

\* POST plugin-sources/{slug}/refresh/
FetchSource(source_slug, remote) ==
    /\ last.n < MaxOps
    /\ Has(sources, source_slug)
    /\ LET f == fetch_source(sources, source_slug, remote, last.n + 1)
       IN  /\ sources' = f.sources
           /\ last' = [op |-> "fetch_source", n |-> last.n + 1, source |-> source_slug, slug |-> <<>>,
                       result |-> IF f.raised THEN "fetch_failed" ELSE "ok",
                       downloaded |-> FALSE]
    /\ UNCHANGED <<registry, plugins, components, instances, logs, cache, doc, dep>>

InstallPlugin(source_slug, plugin_slug, dl) ==
    /\ last.n < MaxOps
    /\ Has(sources, source_slug)
    /\ LET db == IF ~Get(sources, source_slug).enabled
                 THEN Db("source_disabled", FALSE, sources, plugins, components, instances,
                         cache, registry)
                 ELSE install_plugin(sources, plugins, components, instances, cache, registry,
                                     source_slug, plugin_slug, dl)
       IN  /\ Commit(db)
           /\ last' = [op |-> "install_plugin", n |-> last.n + 1, source |-> source_slug,
                       slug |-> <<source_slug, plugin_slug>>, result |-> db.result,
                       downloaded |-> db.downloaded, cls |-> dl]

UpdatePlugin(slug, remote, dl) ==
    /\ last.n < MaxOps
    /\ Has(plugins, slug)
    /\ LET db == update_plugin(sources, plugins, components, instances, cache, registry,
                               slug, remote, dl, last.n + 1)
       IN  /\ Commit(db)
           /\ last' = [op |-> "update_plugin", n |-> last.n + 1, source |-> Get(plugins, slug).source,
                       slug |-> slug, result |-> db.result, downloaded |-> db.downloaded,
                       cls |-> dl]

UninstallPlugin(slug) ==
    /\ last.n < MaxOps
    /\ Has(plugins, slug)
    /\ LET db == uninstall_plugin(sources, plugins, components, instances, cache, registry, slug)
       IN  /\ Commit(db)
           /\ last' = [op |-> "uninstall_plugin", n |-> last.n + 1, source |-> Get(plugins, slug).source,
                       slug |-> slug, result |-> db.result, downloaded |-> db.downloaded]

CheckForUpdates(slug, remote) ==
    /\ last.n < MaxOps
    /\ Has(plugins, slug)
    /\ LET db == check_for_updates(sources, plugins, components, instances, cache, registry,
                                   slug, remote, last.n + 1)
       IN  /\ Commit(db)
           /\ last' = [op |-> "check_for_updates", n |-> last.n + 1, source |-> Get(plugins, slug).source,
                       slug |-> slug, result |-> db.result, downloaded |-> db.downloaded]

\* POST plugin-instances/: a new row for a component, under an id not in use
CreateInstance(component, enabled) ==
    /\ last.n < MaxOps
    /\ component \in components
    /\ Cardinality(DOMAIN instances) < MaxInstances
    /\ LET id == CHOOSE n \in 1..MaxInstances : n \notin DOMAIN instances
           row == Instance(component.plugin, component.slug, enabled, 100, {}, {}, "")
       IN  instances' = [x \in DOMAIN instances \cup {id} |->
                             IF x = id THEN row ELSE instances[x]]
    /\ last' = [op |-> "create_instance", n |-> last.n + 1, source |-> None, slug |-> component.plugin,
                result |-> "ok", downloaded |-> FALSE]
    /\ UNCHANGED <<registry, sources, plugins, components, logs, cache, doc, dep>>

\* the slug the create view gives a new source: slug itself when free, else
\* the first free f"{slug}-{counter}" ("acme-plugins" is the only slug two URLs share)
UniqueSlug(srcs, slug) ==
    IF ~Has(srcs, slug)
    THEN slug
    ELSE LET numbered == <<"acme-plugins-1", "acme-plugins-2", "acme-plugins-3">>
             counter == CHOOSE n \in DOMAIN numbered :
                            /\ ~Has(srcs, numbered[n])
                            /\ \A k \in 1..(n - 1) : Has(srcs, numbered[k])
         IN  numbered[counter]

\* POST plugin-sources/: a user source for the URL, then a first fetch
CreateSource(url, remote) ==
    /\ last.n < MaxOps
    /\ LET slug == UniqueSlug(sources, url.slug)
           exists == \E e \in sources : e[2].url = url.address
           f == fetch_source(Put(sources, slug, SourceRow(url, NoManifest, "")), slug, remote,
                             last.n + 1)
       IN  /\ sources' = IF exists
                         THEN sources
                         ELSE IF f.raised
                         THEN Put(f.sources, slug,
                                  [Get(f.sources, slug) EXCEPT !.error_message = "fetch failed"])
                         ELSE f.sources
           /\ last' = [op |-> "create_source", n |-> last.n + 1,
                       source |-> IF exists THEN None ELSE slug, slug |-> <<>>,
                       result |-> IF exists THEN "url_exists" ELSE "created",
                       downloaded |-> FALSE]
    /\ UNCHANGED <<registry, plugins, components, instances, logs, cache, doc, dep>>

\* POST plugin-sources/{slug}/toggle/
ToggleSource(source_slug) ==
    /\ last.n < MaxOps
    /\ Has(sources, source_slug)
    /\ sources' = Put(sources, source_slug, [Get(sources, source_slug) EXCEPT !.enabled = ~@])
    /\ last' = [op |-> "toggle_source", n |-> last.n + 1, source |-> source_slug, slug |-> <<>>,
                result |-> "ok", downloaded |-> FALSE]
    /\ UNCHANGED <<registry, plugins, components, instances, logs, cache, doc, dep>>

\* "if source.source_type == PluginSource.SOURCE_TYPE_BUILTIN" never taken
IsBuiltin_Never(row) == FALSE

\* "if source.source_type == PluginSource.SOURCE_TYPE_BUILTIN"
IsBuiltin(row) == row.source_type = "builtin"

\* DELETE plugin-sources/{slug}/: Plugin.source is SET_NULL on the delete
DestroySource(source_slug) ==
    /\ last.n < MaxOps
    /\ Has(sources, source_slug)
    /\ LET builtin == IsBuiltin(Get(sources, source_slug))
       IN  /\ sources' = IF builtin THEN sources ELSE Pop(sources, source_slug)
           /\ plugins' = IF builtin
                         THEN plugins
                         ELSE {<<e[1], IF e[2].source = source_slug
                                       THEN [e[2] EXCEPT !.source = None] ELSE e[2]>> :
                                   e \in plugins}
           /\ last' = [op |-> "destroy_source", n |-> last.n + 1, source |-> source_slug,
                       slug |-> <<>>, result |-> IF builtin THEN "rejected" ELSE "deleted",
                       downloaded |-> FALSE]
    /\ UNCHANGED <<registry, components, instances, logs, cache, doc, dep>>

ManifestSlugs == {"wc", "dup", "acme-plugins"}

NextSM ==
    \/ \E src \in Keys(sources), remote \in Manifests : FetchSource(src, remote)
    \/ \E src \in Keys(sources), ps \in ManifestSlugs, dl \in Downloads :
          InstallPlugin(src, ps, dl)
    \/ \E slug \in Keys(plugins), remote \in Manifests, dl \in Downloads :
          UpdatePlugin(slug, remote, dl)
    \/ \E slug \in Keys(plugins) : UninstallPlugin(slug)
    \/ \E slug \in Keys(plugins), remote \in Manifests : CheckForUpdates(slug, remote)
    \/ \E c \in components, en \in BOOLEAN : CreateInstance(c, en)

SpecSM == InitSM /\ [][NextSM]_vars

(***************************************************************************)
(* The operator's management of sources: beside the user source of InitSM  *)
(* there is a built-in source, created at startup by                       *)
(* ensure_default_sources from the configured list.                        *)
(***************************************************************************)
InitSources ==
    /\ registry = EmptyRegistry
    /\ sources = {<<"acme", SourceRow(Url("https://github.com/acme/wc", "github", "acme-wc"),
                                      NoManifest, "")>>,
                  <<"official",
                    [SourceRow(Url("https://github.com/datanexus/official-plugins", "github",
                                   "datanexus-official-plugins"), NoManifest, "")
                         EXCEPT !.source_type = "builtin"]>>}
    /\ plugins = {}
    /\ components = {}
    /\ instances = <<>>
    /\ logs = <<>>
    /\ cache = {}
    /\ doc = NoDoc
    /\ dep = NoDep
    /\ last = [op |-> "none", n |-> 0]

\* a repository answers a fetch with no manifest or with one listing "wc"
NextSources ==
    \/ \E url \in Urls, remote \in {m \in Manifests : m.mtype \in {"none", "single"}} :
          CreateSource(url, remote)
    \/ \E src \in Keys(sources) : ToggleSource(src)
    \/ \E src \in Keys(sources) : DestroySource(src)
    \/ \E src \in Keys(sources), remote \in {m \in Manifests : m.mtype \in {"none", "single"}} :
          FetchSource(src, remote)
    \/ \E src \in Keys(sources) : InstallPlugin(src, "wc", "WcV1")
    \/ \E c \in components : CreateInstance(c, TRUE)

SpecSources == InitSources /\ [][NextSources]_vars

(***************************************************************************)
(* Two requests POST plugin-sources/acme/install/wc/ served at once by two *)
(* threads of the host.  install_plugin takes no lock and opens no         *)
(* transaction, so the threads interleave between its database reads, its  *)
(* file operations and its writes.  last.calls holds, for each request,    *)
(* how far it has come (pc), the exception or success it ended with        *)
(* (result) and the class load_plugin_from_path returned to it (cls).      *)
(***************************************************************************)
InitRace ==
    /\ registry = EmptyRegistry
    /\ sources = {<<"acme", SourceRow(Url("https://github.com/acme/wc", "github", "acme-wc"),
                                      Manifest("single", "wc", "1.0.0", {}), "")>>}
    /\ plugins = {}
    /\ components = {}
    /\ instances = <<>>
    /\ logs = <<>>
    /\ cache = {}
    /\ doc = NoDoc
    /\ dep = NoDep
    /\ last = [op |-> "none", n |-> 0,
               calls |-> [p \in {1, 2} |-> [pc |-> "start", result |-> "", cls |-> None]]]

\* "if not plugin_info: raise" and "if existing: raise"
InstallCheck(p) ==
    /\ last.calls[p].pc = "start"
    /\ LET result == IF PluginInfo(sources, "acme", "wc") = {}
                     THEN "not_found"
                     ELSE IF AlreadyInstalled(plugins, <<"acme", "wc">>)
                     THEN "already_installed"
                     ELSE ""
       IN  last' = [last EXCEPT !.op = "check", !.n = p,
                                !.calls[p] = [pc |-> IF result = "" THEN "checked" ELSE "done",
                                              result |-> result, cls |-> None]]
    /\ UNCHANGED <<registry, sources, plugins, components, instances, logs, cache, doc, dep>>

\* rmtree of an existing directory, mkdir, download_directory: the directory
\* then holds what this request downloaded, or nothing when it failed
InstallDownload(p, dl) ==
    /\ last.calls[p].pc = "checked"
    /\ cache' = Put(cache, CacheDir("acme", "wc"), IF dl = "fail" THEN "empty" ELSE dl)
    /\ last' = [last EXCEPT !.op = "download", !.n = p,
                            !.calls[p] = IF dl = "fail"
                                         THEN [pc |-> "done", result |-> "download_failed",
                                               cls |-> None]
                                         ELSE [pc |-> "downloaded", result |-> "", cls |-> None]]
    /\ UNCHANGED <<registry, sources, plugins, components, instances, logs, doc, dep>>

\* load_plugin_from_path reads the files the directory holds now; on
\* PluginLoadError the directory is removed, and rmtree itself raises when
\* the directory is gone already
InstallLoad(p) ==
    /\ last.calls[p].pc = "downloaded"
    /\ LET dir == CacheDir("acme", "wc")
           found == IF Has(cache, dir) THEN Get(cache, dir) ELSE "empty"
           loads == found \in ClassIds
       IN  /\ cache' = IF loads THEN cache ELSE Pop(cache, dir)
           /\ last' = [last EXCEPT !.op = "load", !.n = p,
                                   !.calls[p] = IF loads
                                                THEN [pc |-> "loaded", result |-> "", cls |-> found]
                                                ELSE [pc |-> "done", result |-> "load_failed",
                                                      cls |-> None]]
    /\ UNCHANGED <<registry, sources, plugins, components, instances, logs, doc, dep>>

\* Plugin.objects.create (unique slug), _register_plugin_components,
\* plugin_registry.register_plugin
InstallPersist(p) ==
    /\ last.calls[p].pc = "loaded"
    /\ LET full_slug == <<"acme", "wc">>
           cls == last.calls[p].cls
           refused == Has(plugins, full_slug)
           created == register_plugin_components(components, full_slug, cls)
       IN  /\ plugins' = IF refused THEN plugins
                         ELSE Put(plugins, full_slug, PluginRow(cls, "acme", "", TRUE))
           /\ components' = IF refused THEN components ELSE created.components
           /\ registry' = IF refused \/ created.raised THEN registry
                          ELSE register_plugin(registry, cls)
           /\ last' = [last EXCEPT !.op = "persist", !.n = p,
                                   !.calls[p] = [pc |-> "done",
                                                 result |-> IF refused \/ created.raised
                                                            THEN "integrity_error" ELSE "ok",
                                                 cls |-> cls]]
    /\ UNCHANGED <<sources, instances, logs, cache, doc, dep>>

NextRace ==
    \E p \in {1, 2} :
        \/ InstallCheck(p)
        \/ \E dl \in {"fail", "broken", "WcV1", "WcV2"} : InstallDownload(p, dl)
        \/ InstallLoad(p)
        \/ InstallPersist(p)

SpecRace == InitRace /\ [][NextRace]_vars

(***************************************************************************)
(* Start-up (PluginsConfig.ready): load_installed_plugins runs over the    *)
(* Plugin rows the database holds, in the order the query returns them,    *)
(* against the registry autodiscover has filled.  Each of three plugins is *)
(* absent or installed; an installed one is enabled or not, still has its  *)
(* source or lost it (SET_NULL), and its cache directory is missing, holds *)
(* files that do not load, or holds a plugin class.                        *)
(***************************************************************************)
\* the loop of load_installed_plugins from the i-th row of the query on
RECURSIVE load_installed_plugins_Abort(_, _, _, _, _)
load_installed_plugins_Abort(plugs, cch, reg, order, i) ==
    IF i > Len(order)
    THEN reg
    ELSE LET row == Get(plugs, order[i])
             dir == CacheDir(row.source, LastPart(order[i]))
         IN  IF row.source = None \/ ~Has(cch, dir) \/ Get(cch, dir) \notin ClassIds
             THEN reg
             ELSE load_installed_plugins_Abort(plugs, cch, register_plugin(reg, Get(cch, dir)),
                                               order, i + 1)

RECURSIVE load_installed_plugins(_, _, _, _, _)
load_installed_plugins(plugs, cch, reg, order, i) ==
    IF i > Len(order)
    THEN reg
    ELSE LET row == Get(plugs, order[i])
             dir == CacheDir(row.source, LastPart(order[i]))
         IN  IF row.source = None
             THEN load_installed_plugins(plugs, cch, reg, order, i + 1)
             ELSE IF ~Has(cch, dir)
             THEN load_installed_plugins(plugs, cch, reg, order, i + 1)
             ELSE IF Get(cch, dir) \notin ClassIds
             THEN load_installed_plugins(plugs, cch, reg, order, i + 1)
             ELSE load_installed_plugins(plugs, cch, register_plugin(reg, Get(cch, dir)),
                                         order, i + 1)

InitStartup ==
    /\ registry \in {EmptyRegistry, register_plugin(EmptyRegistry, "Example")}
    /\ sources = {<<s, SourceRow(Url("https://github.com/acme/wc", "github", "acme-wc"),
                                 NoManifest, "")>> : s \in {"acme", "forks"}}
    /\ \E f \in [{<<"acme", "wc">>, <<"acme", "dup">>, <<"forks", "wc">>} ->
                    {[installed |-> FALSE, enabled |-> FALSE, sourced |-> FALSE, dir |-> "missing"]}
                        \cup [installed : {TRUE}, enabled : BOOLEAN, sourced : BOOLEAN,
                              dir : {"missing", "broken", "WcV1", "WcV2", "AcmeWc"}]] :
          /\ plugins = {<<s, PluginRow("WcV1", IF f[s].sourced THEN s[1] ELSE None, "",
                                       f[s].enabled)>> : s \in {x \in DOMAIN f : f[x].installed}}
          /\ cache = {<<CacheDir(s[1], s[2]), f[s].dir>> :
                          s \in {x \in DOMAIN f : f[x].installed /\ f[x].dir # "missing"}}
    /\ components = {}
    /\ instances = <<>>
    /\ logs = <<>>
    /\ doc = NoDoc
    /\ dep = NoDep
    /\ last = [op |-> "none", n |-> 0]

\* Plugin.objects.filter(source__isnull=False, enabled=True), in any order
LoadInstalledPlugins(order) ==
    /\ last.n = 0
    /\ LET selected == {s \in Keys(plugins) :
                            Get(plugins, s).source # None /\ Get(plugins, s).enabled}
       IN  /\ Len(order) = Cardinality(selected)
           /\ {order[i] : i \in DOMAIN order} = selected
    /\ registry' = load_installed_plugins(plugins, cache, registry, order, 1)
    /\ last' = [op |-> "load_installed_plugins", n |-> 1, order |-> order]
    /\ UNCHANGED <<sources, plugins, components, instances, logs, cache, doc, dep>>

NextStartup ==
    \E n \in 0..3 : \E order \in [1..n -> Keys(plugins)] : LoadInstalledPlugins(order)

SpecStartup == InitStartup /\ [][NextStartup]_vars

(***************************************************************************)
(* BaseDataSource.sync (base.py), the default a data source inherits.      *)
(* fetch is what the subclass's fetch_records() does (raises, or returns   *)
(* a list of records), push is what the helper's sync_records() does when  *)
(* called (raises, or returns its counts).  calls lists the calls made.    *)
(***************************************************************************)
\* sync without its "if not records: return"
sync_EmptyPushed(data_source_identifier, fetch, push) ==
    LET failed(calls) ==
            [raised |-> FALSE, calls |-> calls,
             result |-> [success |-> FALSE, records_synced |-> 0, records_created |-> 0,
                         records_updated |-> 0, records_failed |-> 0, message |-> "sync failed"]]
    IN  IF fetch.raises
        THEN failed(<<"fetch_records">>)
        ELSE IF push.raises
        THEN failed(<<"fetch_records", "sync_records">>)
        ELSE [raised |-> FALSE, calls |-> <<"fetch_records", "sync_records">>,
              result |-> [success |-> TRUE, records_synced |-> Len(fetch.records),
                          records_created |-> push.created, records_updated |-> push.updated,
                          records_failed |-> push.failed, message |-> "synced"]]

sync(data_source_identifier, fetch, push) ==
    LET failed(calls) ==
            [raised |-> FALSE, calls |-> calls,
             result |-> [success |-> FALSE, records_synced |-> 0, records_created |-> 0,
                         records_updated |-> 0, records_failed |-> 0, message |-> "sync failed"]]
    IN  IF fetch.raises
        THEN failed(<<"fetch_records">>)
        ELSE IF fetch.records = <<>>
        THEN [raised |-> FALSE, calls |-> <<"fetch_records">>,
              result |-> [success |-> TRUE, records_synced |-> 0, records_created |-> 0,
                          records_updated |-> 0, records_failed |-> 0,
                          message |-> "no records to sync"]]
        ELSE IF push.raises
        THEN failed(<<"fetch_records", "sync_records">>)
        ELSE [raised |-> FALSE, calls |-> <<"fetch_records", "sync_records">>,
              result |-> [success |-> TRUE, records_synced |-> Len(fetch.records),
                          records_created |-> push.created, records_updated |-> push.updated,
                          records_failed |-> push.failed, message |-> "synced"]]

\* datasource.sync(instance.affinda_data_source) on a data source that does
\* not override sync
Sync(fetch, push) ==
    /\ last = NoOp
    /\ LET r == sync("sink", fetch, push)
       IN  last' = [op |-> "sync", fetch |-> fetch, push |-> push, raised |-> r.raised,
                    result |-> r.result, calls |-> r.calls]
    /\ UNCHANGED <<registry, sources, plugins, components, instances, logs, cache, doc, dep>>

\* batches of up to two records; counts the helper may report for them
NextSync ==
    \E fetch \in {[raises |-> TRUE, records |-> <<>>]}
                     \cup {[raises |-> FALSE, records |-> b] :
                               b \in UNION {[1..n -> {"r1", "r2"}] : n \in 0..2}},
       push \in {[raises |-> TRUE, created |-> 0, updated |-> 0, failed |-> 0]}
                    \cup [raises : {FALSE}, created : 0..2, updated : 0..2, failed : 0..2] :
        Sync(fetch, push)

SpecSync == InitEmpty /\ [][NextSync]_vars

(***************************************************************************)
(* Dynamic loader (dynamic_loader.py).  A directory is a path, the         *)
(* sequence of its parts below the cache root; an entry file name is the   *)
(* sequence of its characters.  last.path is sys.path and last.modules is  *)
(* the part of sys.modules the loader writes: module name -> the directory *)
(* and entry file the module was made from.  files is what the entry file  *)
(* holds: "missing" (no such file), "raises" (executing it raises),        *)
(* "noclass" (it defines no BasePlugin subclass) or a plugin class.        *)
(***************************************************************************)
\* f"_dynamic_plugin_{plugin_path.name}_{entry_point.rstrip('.py')}":
\* rstrip drops every trailing character that is one of ".", "p", "y"
ModuleName(plugin_path, entry_point) ==
    LET RECURSIVE rstrip(_)
        rstrip(s) == IF s # <<>> /\ s[Len(s)] \in {".", "p", "y"}
                     THEN rstrip(SubSeq(s, 1, Len(s) - 1))
                     ELSE s
    IN  <<plugin_path[Len(plugin_path)], rstrip(entry_point)>>

load_plugin_from_path(path, modules, plugin_path, entry_point, files) ==
    LET module_name == ModuleName(plugin_path, entry_point)
        \* "if plugin_dir_str not in sys.path: sys.path.insert(0, plugin_dir_str)"
        inserted == IF \E i \in DOMAIN path : path[i] = plugin_path
                    THEN path ELSE <<plugin_path>> \o path
        \* "if plugin_dir_str in sys.path: sys.path.remove(plugin_dir_str)":
        \* the first occurrence goes
        first == CHOOSE i \in DOMAIN inserted :
                     inserted[i] = plugin_path /\ \A k \in 1..(i - 1) : inserted[k] # plugin_path
        removed == SubSeq(inserted, 1, first - 1) \o SubSeq(inserted, first + 1, Len(inserted))
        \* "del sys.modules[module_name]" when present, then
        \* "sys.modules[module_name] = module"
        loaded == Put(modules, module_name, [dir |-> plugin_path, entry |-> entry_point])
    IN  IF files = "missing"
        THEN [raised |-> TRUE, cls |-> None, path |-> path, modules |-> modules]
        ELSE [raised |-> files \notin ClassIds,
              cls |-> IF files \in ClassIds THEN files ELSE None,
              path |-> removed, modules |-> loaded]

\* the interpreter's path holds its library directory and, in some
\* deployments, a plugin directory put there through PYTHONPATH
InitLoader ==
    /\ registry = EmptyRegistry
    /\ sources = {}
    /\ plugins = {}
    /\ components = {}
    /\ instances = <<>>
    /\ logs = <<>>
    /\ cache = {}
    /\ doc = NoDoc
    /\ dep = NoDep
    /\ \E p \in {<<<<"site-packages">>>>, <<<<"site-packages">>, CacheDir("acme", "wc")>>} :
          last = [op |-> "none", n |-> 0, path |-> p, modules |-> {}]

LoadPluginFromPath(plugin_path, entry_point, files) ==
    /\ last.n < MaxOps
    /\ LET r == load_plugin_from_path(last.path, last.modules, plugin_path, entry_point, files)
       IN  last' = [op |-> "load_plugin_from_path", n |-> last.n + 1, dir |-> plugin_path,
                    entry |-> entry_point, raised |-> r.raised, cls |-> r.cls,
                    path |-> r.path, modules |-> r.modules]
    /\ UNCHANGED <<registry, sources, plugins, components, instances, logs, cache, doc, dep>>

\* the cache directories of "wc" under two sources and of "dup"; the entry
\* files "plugin.py", "ha.py" and "happy.py"
NextLoader ==
    \E plugin_path \in {CacheDir("acme", "wc"), CacheDir("forks", "wc"), CacheDir("acme", "dup")},
       entry_point \in {<<"p", "l", "u", "g", "i", "n", ".", "p", "y">>,
                        <<"h", "a", ".", "p", "y">>,
                        <<"h", "a", "p", "p", "y", ".", "p", "y">>},
       files \in {"missing", "raises", "noclass", "WcV1"} :
        LoadPluginFromPath(plugin_path, entry_point, files)

SpecLoader == InitLoader /\ [][NextLoader]_vars

(***************************************************************************)
(* Registry operations                                                     *)
(***************************************************************************)
RegisterPlugin(c) ==
    /\ registry' = register_plugin(registry, c)
    /\ last' = [op |-> "register", cls |-> c]
    /\ UNCHANGED <<sources, plugins, components, instances, logs, cache, doc, dep>>

UnregisterPlugin(plugin_slug) ==
    /\ registry' = unregister_plugin(registry, plugin_slug)
    /\ last' = [op |-> "unregister", slug |-> plugin_slug,
                found |-> Has(registry.plugins, plugin_slug)]
    /\ UNCHANGED <<sources, plugins, components, instances, logs, cache, doc, dep>>

NextRegistry ==
    \/ \E c \in ClassIds : RegisterPlugin(c)
    \/ \E c \in ClassIds : UnregisterPlugin(Classes(c).slug)

SpecRegistry == InitEmpty /\ [][NextRegistry]_vars

(***************************************************************************)
(* Dependency check                                                        *)
(***************************************************************************)
InitDeps ==
    /\ InitEmpty

CheckDependency(req, host) ==
    /\ dep' = [checked |-> TRUE, req |-> req, host |-> host,
               status |-> check_dependency(req, host)]
    /\ last' = [op |-> "check_dependency"]
    /\ UNCHANGED <<registry, sources, plugins, components, instances, logs, cache, doc>>

NextDeps ==
    \E req \in RequirementStrings, host \in HostStates : CheckDependency(req, host)

SpecDeps == InitDeps /\ [][NextDeps]_vars

\* C1: registering a plugin class whose slug is already in the registry
\* changes none of the five maps: the slug keeps its first implementation
\* and no component of the second class is inserted.
C1_FirstRegistrationWins ==
    [][(last'.op = "register" /\ Has(registry.plugins, Classes(last'.cls).slug))
        => registry' = registry]_vars

\* register(B) was called while another class A held B's slug
C1_Witness ==
    /\ last.op = "register"
    /\ Has(registry.plugins, Classes(last.cls).slug)
    /\ Get(registry.plugins, Classes(last.cls).slug) # last.cls
    /\ \E k \in Kinds : \E s \in Range(Classes(last.cls).comps[k]) :
           get_component(registry, k, FullSlug(Classes(last.cls).slug, s)) # <<last.cls, s>>

\* what the dependency check should report for a parsed requirement
ExpectedSatisfied(req, host) ==
    LET r == ParseRequirement(req)
    IN  /\ r.ok
        /\ r.name \in DOMAIN host
        /\ host[r.name] # None
        /\ \/ Len(req) = 1
           \/ \A i \in 1..((Len(req) - 1) \div 2) :
                  ClauseContains(req[2 * i], req[2 * i + 1], host[r.name])

\* C9: the dependency check reports satisfied exactly when the package is
\* installed and either no version range is given or the installed version
\* lies inside it; "requests>=2,<3" is unsatisfied at 1.9.0 and satisfied at
\* 2.5.0, and a package that is not installed is never satisfied.
C9_SatisfiedIffInstalledAndInRange ==
    dep.checked =>
        /\ dep.status.satisfied = ExpectedSatisfied(dep.req, dep.host)
        /\ dep.status.satisfied => dep.status.installed
        /\ (dep.req = <<"requests", ">=", "2", "<", "3">> /\ dep.host["requests"] = "1.9.0")
               => ~dep.status.satisfied
        /\ (dep.req = <<"requests", ">=", "2", "<", "3">> /\ dep.host["requests"] = "2.5.0")
               => dep.status.satisfied

\* the scenario of the claim: "requests>=2,<3" checked against 2.5.0
C9_Witness ==
    /\ dep.checked
    /\ dep.req = <<"requests", ">=", "2", "<", "3">>
    /\ dep.host["requests"] = "2.5.0"
    /\ dep.status.satisfied

(***************************************************************************)
(* C2: a call of an entry point on a disabled instance of the entry        *)
(* point's kind raises nothing and returns no failure (one success result; *)
(* for the importer the empty result list), leaves every execution log row *)
(* as it was, and records no event at all: no registry lookup, no helper   *)
(* acquisition, no helper call, no capability invocation.                  *)
(***************************************************************************)
EntryKind(op) ==
    CASE op = "execute_importer" -> "importer"
      [] op = "execute_preprocessor" -> "preprocessor"
      [] op = "execute_postprocessor" -> "postprocessor"
      [] op = "execute_datasource" -> "datasource"
      [] OTHER -> None

C2_DisabledCall ==
    /\ EntryKind(last'.op) # None
    /\ ~instances[last'.inst].enabled
    /\ ComponentType(components, instances[last'.inst]) = EntryKind(last'.op)

Invoked(tr, ev) ==
    LET sel == SelectSeq(tr, LAMBDA x : x.ev = ev) IN [i \in DOMAIN sel |-> sel[i].inst]

Ascending(ids) ==
    \A i, j \in DOMAIN ids : i < j => instances[ids[i]].priority <= instances[ids[j]].priority

C3_AbortStopsChain ==
    last.op = "execute_preprocessors" =>
        /\ \A i \in DOMAIN last.ran : last.ran[i] = last.order[i] /\ instances[last.ran[i]].enabled
        /\ Len(last.ran) <= Len(last.order)
        /\ Ascending(last.ran)
        /\ Ascending(Invoked(last.trace, "invoke"))
        /\ (\A i \in DOMAIN last.results : ~last.results[i].abort) => last.ran = last.order
        /\ \A k \in DOMAIN last.results :
               last.results[k].abort =>
                   /\ k = Len(last.results)
                   /\ \A j \in DOMAIN instances :
                          instances[j].priority > instances[last.ran[k]].priority =>
                              /\ \A e \in DOMAIN last.trace : last.trace[e].inst # j
                              /\ \A l \in (last.before + 1)..Len(logs) : logs[l].instance # j

C3_Witness ==
    /\ last.op = "execute_preprocessors"
    /\ Len(last.order) = 2
    /\ instances[last.order[2]].priority > instances[last.order[1]].priority
    /\ ~CollectionFiltered(instances[last.order[2]], doc)
    /\ last.results[1].abort
    /\ Invoked(last.trace, "invoke") = <<last.order[1]>>

(***************************************************************************)
(* C4: in execute_postprocessors the fan-out returns one result per        *)
(* enabled instance matching the event, in the query's order; and when the *)
(* capability of instance i raised, every other such instance j was still  *)
(* executed, with the same events (lookup, validation, invocation, side    *)
(* effects), the same returned result and the same execution log rows as   *)
(* in the fan-out where i's capability succeeds instead.                   *)
(***************************************************************************)
Succeeds == [valid |-> TRUE, outcome |-> "ok", abort |-> FALSE, archive |-> FALSE,
             helper_raises |-> FALSE]

\* the enabled instances of the query that the event filter lets through
Matching(order, event) ==
    SelectSeq(order, LAMBDA id : ~EventFiltered(instances[id], event))

EventsOf(tr, id) == SelectSeq(tr, LAMBDA x : x.inst = id)

LogsOf(lg, id) == SelectSeq(lg, LAMBDA x : x.instance = id)

Raised(id) ==
    /\ last.behs[id].valid /\ last.behs[id].outcome = "raise"
    /\ \E e \in DOMAIN last.trace : last.trace[e] = Ev("invoke", id, last.event)

C4_FanOutIndependent ==
    last.op = "execute_postprocessors" =>
        /\ last.ran = Matching(last.order, last.event)
        /\ Len(last.results) = Len(last.ran)
        /\ \A p \in DOMAIN last.ran :
               Raised(last.ran[p]) =>
                   LET alt == execute_postprocessors(registry, components, instances, doc,
                                  last.event, [last.behs EXCEPT ![last.ran[p]] = Succeeds],
                                  last.order,
                                  [logs |-> SubSeq(logs, 1, last.before), trace |-> <<>>])
                   IN  /\ ~last.results[p].success
                       /\ alt.ran = last.ran
                       /\ \A q \in DOMAIN last.ran :
                              q # p /\ last.ran[q] # last.ran[p] =>
                                  /\ last.results[q] = alt.results[q]
                                  /\ EventsOf(last.trace, last.ran[q]) = EventsOf(alt.trace, last.ran[q])
                                  /\ LogsOf(logs, last.ran[q]) = LogsOf(alt.logs, last.ran[q])

C4_Witness ==
    /\ last.op = "execute_postprocessors"
    /\ Len(last.ran) = 2
    /\ Raised(last.ran[1])
    /\ ~last.results[1].success
    /\ last.results[2].success
    /\ Invoked(last.trace, "invoke") = last.ran
    /\ logs[last.before + 2].status = "success"

(***************************************************************************)
(* C8: on a non-creation write taking is_confirmed from false to true the  *)
(* dispatcher fires "document_approved" exactly once, and every enabled    *)
(* post-processor instance of an enabled plugin whose trigger set contains *)
(* that event, whose scope includes the document's collection, whose class *)
(* the registry resolves and whose configuration validates has its         *)
(* capability invoked exactly once for the event; the invocations for the  *)
(* event are in ascending priority order.                                  *)
(***************************************************************************)
Count(tr, e) == Len(SelectSeq(tr, LAMBDA x : x = e))

C8_Approval ==
    last.op = "save" /\ ~last.created /\ ~last.old.is_confirmed /\ last.new.is_confirmed

\* enabled, post-processor, triggered by "approved", document in scope
C8_Selected(id) ==
    /\ instances[id].enabled
    /\ ComponentType(components, instances[id]) = "postprocessor"
    /\ "document_approved" \in instances[id].event_triggers
    /\ \/ instances[id].collections = {}
       \/ last.new.collection \in instances[id].collections

C8_Runnable(id) ==
    /\ Get(plugins, instances[id].plugin).enabled
    /\ get_component(registry, "postprocessor", InstanceFullSlug(instances[id])) # NotFound
    /\ last.behs[id].valid

ApprovedInvocations ==
    Invoked(SelectSeq(last.trace, LAMBDA x : x.event = "document_approved"), "invoke")

C8_ApprovedOnceInOrder ==
    C8_Approval =>
        /\ Count(last.trace, Ev("fire", 0, "document_approved")) = 1
        /\ \A id \in DOMAIN instances :
               C8_Selected(id) /\ C8_Runnable(id) =>
                   Count(last.trace, Ev("invoke", id, "document_approved")) = 1
        /\ \A id \in DOMAIN instances :
               Count(last.trace, Ev("invoke", id, "document_approved")) <= 1
        /\ Ascending(ApprovedInvocations)

C8_Witness ==
    /\ C8_Approval
    /\ Len(ApprovedInvocations) = 2
    /\ \A id \in DOMAIN instances : C8_Selected(id) /\ C8_Runnable(id)
    /\ instances[1].priority > instances[2].priority
    /\ ApprovedInvocations = <<2, 1>>

\* the claim as stated: every enabled instance triggered by "approved" with
\* the document in scope is invoked exactly once
C8_AsStated ==
    C8_Approval =>
        /\ Count(last.trace, Ev("fire", 0, "document_approved")) = 1
        /\ \A id \in DOMAIN instances :
               C8_Selected(id) => Count(last.trace, Ev("invoke", id, "document_approved")) = 1
        /\ Ascending(ApprovedInvocations)

(***************************************************************************)
(* C5: when update_plugin finds, in the manifest it has just fetched, the  *)
(* plugin advertised at the version the row records as installed, it       *)
(* reports "no update" and downloads nothing: the cache, the plugin rows   *)
(* (version fields included), the component rows, the instances and the    *)
(* registry are after the call what they were before it.                   *)
(***************************************************************************)
\* the versions a manifest advertises for a plugin slug
AdvertisedVersions(manifest, plugin_slug) ==
    IF manifest.mtype = "multi"
    THEN {e.version : e \in {x \in manifest.plugins : x.slug = plugin_slug}}
    ELSE IF manifest.mtype \in {"single", "inferred"} /\ manifest.slug = plugin_slug
    THEN {manifest.version}
    ELSE {}

\* this step is an update_plugin that fetched a manifest advertising the
\* installed version
C5_SameVersionFetched ==
    /\ last'.op = "update_plugin"
    /\ last'.source # None
    /\ last'.result # "fetch_failed"
    /\ AdvertisedVersions(Get(sources', last'.source).manifest_data, LastPart(last'.slug))
           = {Get(plugins, last'.slug).installed_version}

C6_InstalledComponentsResolve ==
    (last.op = "install_plugin" /\ last.result = "ok") =>
        /\ Has(plugins, last.slug)
        /\ {[component_type |-> c.component_type, slug |-> c.slug] :
                c \in {x \in components : x.plugin = last.slug}} = Range(Declared(last.cls))
        /\ \A c \in {x \in components : x.plugin = last.slug} :
               /\ Has(registry[c.component_type], FullSlug(last.slug, c.slug))
               /\ Get(registry[c.component_type], FullSlug(last.slug, c.slug))
                      = <<last.cls, c.slug>>

(***************************************************************************)
(* C7: an install_plugin that directly follows a successful install_plugin *)
(* of the same source and slug fails with "already installed" and          *)
(* downloads nothing: cache, plugin rows, component rows and registry are  *)
(* unchanged by it.                                                        *)
(***************************************************************************)
C7_SecondInstall ==
    /\ last.op = "install_plugin" /\ last.result = "ok"
    /\ last'.op = "install_plugin"
    /\ last'.source = last.source /\ last'.slug = last.slug

C7_SecondInstallRejected ==
    [][C7_SecondInstall =>
         /\ last'.result = "already_installed"
         /\ ~last'.downloaded
         /\ cache' = cache
         /\ plugins' = plugins
         /\ components' = components
         /\ registry' = registry]_vars

\* the third operation, after the fetch and the first install
C7_Witness ==
    /\ last.op = "install_plugin"
    /\ last.n = 3
    /\ last.result = "already_installed"
    /\ last.slug = <<"acme", "wc">>
    /\ Has(registry.plugins, <<"wc">>)
    /\ Get(cache, CacheDir("acme", "wc")) = "WcV1"

(***************************************************************************)
(* C10: after an update_plugin that found a changed version and succeeded, *)
(* every instance that existed before the call for a component of the      *)
(* plugin still exists with the same row (configuration, enabled flag,     *)
(* priority, triggers, scope).                                             *)
(***************************************************************************)
C10_InstancesSurviveUpdate ==
    [][(last'.op = "update_plugin" /\ last'.result = "updated") =>
         \A id \in DOMAIN instances :
             instances[id].plugin = last'.slug =>
                 id \in DOMAIN instances' /\ instances'[id] = instances[id]]_vars


(***************************************************************************)
(* C11: after an update_plugin that found a changed version and succeeded, *)
(* the registry holds the newly loaded plugin class under the slug the     *)
(* class declares, and resolves every component the new class declares,    *)
(* under "<declared slug>.<component slug>", to that new class's           *)
(* component, not to what was registered before the update.                *)
(***************************************************************************)
C11_UpdateRegistersNewImplementation ==
    (last.op = "update_plugin" /\ last.result = "updated") =>
        /\ Has(registry.plugins, Classes(last.cls).slug)
        /\ Get(registry.plugins, Classes(last.cls).slug) = last.cls
        /\ \A k \in Kinds : \A s \in Range(Classes(last.cls).comps[k]) :
               get_component(registry, k, FullSlug(Classes(last.cls).slug, s)) = <<last.cls, s>>

(***************************************************************************)
(* C12: when install_plugin fails after the download step (the downloaded  *)
(* files do not load, or writing the plugin row or one of its component    *)
(* rows is refused), the plugin's cache directory is gone when the call    *)
(* returns.                                                                *)
(***************************************************************************)
C12_FailedInstallRemovesCache ==
    (last.op = "install_plugin" /\ last.result \in {"load_failed", "integrity_error"}) =>
        ~Has(cache, CacheDir(last.source, LastPart(last.slug)))


(***************************************************************************)
(* C13: every execution log row is created with status "started" and is    *)
(* saved exactly once, with status "success" or "failed", before the entry *)
(* point that created it returns: whenever no entry point is running,      *)
(* every row is completed and has been written once, and in the call the   *)
(* creation of a row is directly followed by its one completing save.      *)
(***************************************************************************)
LogEvents(tr) == SelectSeq(tr, LAMBDA x : x.ev \in {"log_create", "log_success", "log_failed"})

Fired(tr) ==
    LET sel == SelectSeq(tr, LAMBDA x : x.ev = "fire") IN [i \in DOMAIN sel |-> sel[i].event]

C14_UploadedOrUpdated ==
    last.op = "save" =>
        IF last.created
        THEN Fired(last.trace) = <<"document_uploaded">>
        ELSE /\ Count(Fired(last.trace), "document_updated") = 1
             /\ Count(Fired(last.trace), "document_uploaded") = 0

C14_Witness ==
    /\ last.op = "save"
    /\ ~last.created
    /\ Fired(last.trace) = <<"document_approved", "document_archived", "document_updated">>
    /\ \E id \in DOMAIN instances : Count(last.trace, Ev("invoke", id, "document_updated")) = 1

(***************************************************************************)
(* C15: on a non-creation write "approved" is fired exactly when the       *)
(* persisted is_confirmed was false and the written one is true, and       *)
(* "archived" exactly when the persisted state was not archived and the    *)
(* written one is; saving an already confirmed or already archived         *)
(* document again fires neither.                                           *)
(***************************************************************************)
C15_ApprovedArchivedOnTransition ==
    (last.op = "save" /\ ~last.created) =>
        /\ Count(Fired(last.trace), "document_approved")
               = IF ~last.old.is_confirmed /\ last.new.is_confirmed THEN 1 ELSE 0
        /\ Count(Fired(last.trace), "document_archived")
               = IF last.old.state # "archived" /\ last.new.state = "archived" THEN 1 ELSE 0

\* an archived, confirmed document saved again as it is
C15_Witness ==
    /\ last.op = "save"
    /\ ~last.created
    /\ last.old.is_confirmed /\ last.new.is_confirmed
    /\ last.old.state = "archived" /\ last.new.state = "archived"
    /\ Fired(last.trace) = <<"document_updated">>

(***************************************************************************)
(* C16: on a non-creation write "rejected" is fired exactly when the       *)
(* persisted failed flag was false and the written one is true; a write to *)
(* a document that was already failed does not fire it again.              *)
(***************************************************************************)
C16_RejectedOnTransition ==
    (last.op = "save" /\ ~last.created) =>
        Count(Fired(last.trace), "document_rejected")
            = IF ~last.old.failed /\ last.new.failed THEN 1 ELSE 0


(***************************************************************************)
(* C17: a call of the pre- or post-processor entry point on an instance of *)
(* that kind whose scope set is not empty, for a document whose collection *)
(* is not in the set (a document without collection included), returns a   *)
(* success result and does nothing else: no log row, no capability         *)
(* invocation, no helper acquisition or call.                              *)
(***************************************************************************)
C17_OutOfScopeCall ==
    /\ last'.op \in {"execute_preprocessor", "execute_postprocessor"}
    /\ ComponentType(components, instances[last'.inst]) = EntryKind(last'.op)
    /\ instances[last'.inst].collections # {}
    /\ doc.collection \notin instances[last'.inst].collections

C17_OutOfScopeSkipped ==
    [][C17_OutOfScopeCall =>
         /\ ~last'.raised
         /\ last'.results[1].success
         /\ logs' = logs
         /\ \A e \in DOMAIN last'.trace :
                last'.trace[e].ev \notin {"log_create", "acquire", "invoke", "archive"}]_vars

(***************************************************************************)
(* C18: the capability of a post-processor instance is invoked for an      *)
(* event only if the event is in the instance's trigger set; for an event  *)
(* outside the set (every event when the set is empty) the fan-out leaves  *)
(* the instance out: nothing is recorded for it and no log row is created. *)
(***************************************************************************)
C18_OnlyTriggeredEvents ==
    last.op \in {"execute_postprocessors", "save"} =>
        \A e \in DOMAIN last.trace :
            last.trace[e].ev # "fire" =>
                last.trace[e].event \in instances[last.trace[e].inst].event_triggers


(***************************************************************************)
(* C19: when fetch_source fails (URL no handler accepts, direct URL, no    *)
(* manifest in the repository), the source row has on return a non-empty   *)
(* error message and a newer last_checked_at, while manifest_data,         *)
(* is_multi_plugin, latest_version and last_fetched_at are as before.      *)
(***************************************************************************)
C19_FailedFetchRecorded ==
    [][(last'.op = "fetch_source" /\ last'.result = "fetch_failed") =>
         LET before == Get(sources, last'.source)
             after == Get(sources', last'.source)
         IN  /\ after.error_message # ""
             /\ after.last_checked_at > before.last_checked_at
             /\ after.manifest_data = before.manifest_data
             /\ after.is_multi_plugin = before.is_multi_plugin
             /\ after.latest_version = before.latest_version
             /\ after.last_fetched_at = before.last_fetched_at]_vars

(***************************************************************************)
(* C20: no operation removes a built-in source or changes its type; the    *)
(* create, toggle and delete requests change nothing of a built-in source  *)
(* but its enabled flag, and a delete request on it is rejected and        *)
(* changes nothing at all; deleting a user source keeps every plugin row,  *)
(* only clearing the source reference of those installed from it, and      *)
(* keeps every component row, every instance, the cache and the registry.  *)
(***************************************************************************)
C20_BuiltinKeptUserDeleteOrphans ==
    [][/\ \A e \in sources :
              e[2].source_type = "builtin" =>
                  /\ Has(sources', e[1])
                  /\ Get(sources', e[1]).source_type = "builtin"
                  /\ last'.op \in {"create_source", "toggle_source", "destroy_source"} =>
                         [Get(sources', e[1]) EXCEPT !.enabled = e[2].enabled] = e[2]
       /\ last'.op = "destroy_source" =>
              /\ IF Get(sources, last'.source).source_type = "builtin"
                 THEN last'.result = "rejected" /\ sources' = sources /\ plugins' = plugins
                 ELSE /\ sources' = Pop(sources, last'.source)
                      /\ Keys(plugins') = Keys(plugins)
                      /\ \A p \in plugins :
                             Get(plugins', p[1]) = IF p[2].source = last'.source
                                                   THEN [p[2] EXCEPT !.source = None]
                                                   ELSE p[2]
              /\ components' = components
              /\ instances' = instances
              /\ cache' = cache
              /\ registry' = registry]_vars

\* the user source was deleted after a plugin had been installed from it and
\* an instance created; the built-in source is still there
C20_Witness ==
    /\ last.op = "destroy_source"
    /\ last.result = "deleted"
    /\ ~Has(sources, last.source)
    /\ \E e \in sources : e[2].source_type = "builtin"
    /\ \E p \in plugins :
           /\ p[2].source = None
           /\ p[1][1] = last.source
           /\ \E c \in components : c.plugin = p[1]
           /\ \E id \in DOMAIN instances : instances[id].plugin = p[1]

(***************************************************************************)
(* C21: in every state reached by install, update and uninstall            *)
(* operations the plugin rows have pairwise distinct slugs, and no two     *)
(* rows installed from a source share the same source and source_path.     *)
(***************************************************************************)
C21_SlugAndSourcePathUnique ==
    \A a \in plugins, b \in plugins :
        /\ a[1] = b[1] => a = b
        /\ (a[2].source # None /\ a[2].source = b[2].source
                /\ a[2].source_path = b[2].source_path) => a = b

(***************************************************************************)
(* C22: of two install_plugin calls for the same source and slug running   *)
(* at once, at most one passes the already-installed check and writes the  *)
(* cache directory, and no step of one call removes or rewrites the cache  *)
(* directory after the other call has loaded the plugin class from it.     *)
(***************************************************************************)
C22_Wrote(call) ==
    \/ call.pc \in {"downloaded", "loaded"}
    \/ call.pc = "done" /\ call.result \in {"download_failed", "load_failed",
                                            "integrity_error", "ok"}

C22_InstallsSerialized ==
    [][/\ Cardinality({p \in {1, 2} : C22_Wrote(last'.calls[p])}) <= 1
       /\ \A p \in {1, 2} :
              (last.calls[p].cls # None /\ last'.n # p) => cache' = cache]_vars

(***************************************************************************)
(* C23: called on an enabled instance of the matching kind no entry point  *)
(* raises.  When validate_config() returned errors the capability method   *)
(* is not invoked, and when it returned errors or the capability method    *)
(* raised, the result is a failure and the run's log row is "failed" with  *)
(* the validation text, or the exception text, as its error message.       *)
(***************************************************************************)
C23_FailuresCaughtAndLogged ==
    (/\ EntryKind(last.op) # None
     /\ instances[last.inst].enabled
     /\ ComponentType(components, instances[last.inst]) = EntryKind(last.op)) =>
        LET validated == Invoked(last.trace, "validate") # <<>>
            invoked == Invoked(last.trace, "invoke") # <<>>
            row == logs[Len(logs)]
            failed(text) ==
                /\ Len(last.results) = 1
                /\ ~last.results[1].success
                /\ last.results[1].message = text
                /\ logs # <<>>
                /\ row.instance = last.inst
                /\ row.status = "failed"
                /\ row.error_message = text
        IN  /\ ~last.raised
            /\ (validated /\ ~last.beh.valid) => (~invoked /\ failed("config"))
            /\ (invoked /\ last.beh.outcome = "raise") => failed("exception")

\* an importer run whose configuration does not validate
C23_Witness ==
    /\ last.op = "execute_importer"
    /\ instances[last.inst].enabled
    /\ ComponentType(components, instances[last.inst]) = "importer"
    /\ ~last.beh.valid
    /\ Invoked(last.trace, "validate") # <<>>
    /\ Len(logs) = 1
    /\ logs[1].error_message = "config"

(***************************************************************************)
(* C24: in every run that passes the enabled, scope and event checks the   *)
(* log row is created in status "started" before the class is looked up in *)
(* the registry; when the class is missing the entry point returns a       *)
(* failed result and the run has a "failed" log row.                       *)
(***************************************************************************)
C24_LogCreatedBeforeResolve ==
    (EntryKind(last.op) # None /\ Invoked(last.trace, "resolve") # <<>>) =>
        LET missing == get_component(registry, EntryKind(last.op),
                                     InstanceFullSlug(instances[last.inst])) = NotFound
        IN  /\ last.trace[1].ev = "log_create"
            /\ logs # <<>>
            /\ logs[Len(logs)].instance = last.inst
            /\ missing => /\ ~last.results[1].success
                          /\ logs[Len(logs)].status = "failed"

(***************************************************************************)
(* C25: a helper acquired by an entry point has been released when the     *)
(* entry point returns, whether the run succeeded, the configuration was   *)
(* invalid, the capability raised or a requested helper call raised; the   *)
(* capability and the helper calls lie between acquisition and release.    *)
(***************************************************************************)
C25_Positions(tr, evs) == {i \in DOMAIN tr : tr[i].ev \in evs}

C25_HelperReleased ==
    EntryKind(last.op) # None =>
        LET acquired == C25_Positions(last.trace, {"acquire"})
            released == C25_Positions(last.trace, {"release"})
            used == C25_Positions(last.trace, {"validate", "invoke", "archive", "archive_raised"})
        IN  /\ Cardinality(acquired) = Cardinality(released)
            /\ Cardinality(acquired) <= 1
            /\ \A a \in acquired, r \in released :
                   /\ a < r
                   /\ last.op # "execute_preprocessor" => \A u \in used : a < u /\ u < r

\* a post-processor run whose archive call raised inside the with block
C25_Witness ==
    /\ last.op = "execute_postprocessor"
    /\ C25_Positions(last.trace, {"archive_raised"}) # {}
    /\ C25_Positions(last.trace, {"release"}) # {}
    /\ logs # <<>>
    /\ logs[Len(logs)].error_message = "helper"

(***************************************************************************)
(* C26: a post-processor run makes the archive call of the document helper *)
(* exactly once when the capability returned a result with success=True    *)
(* that requests it, and makes no such call otherwise, in particular not   *)
(* for a returned result with success=False.                               *)
(***************************************************************************)
C26_SideEffectsOnlyOnSuccess ==
    last.op = "execute_postprocessor" =>
        Len(Invoked(last.trace, "archive")) + Len(Invoked(last.trace, "archive_raised")) =
            IF /\ Invoked(last.trace, "invoke") # <<>>
               /\ last.beh.outcome = "ok"
               /\ last.beh.archive
            THEN 1 ELSE 0

(***************************************************************************)
(* C27: for a plugin listed in the manifest its source has just returned,  *)
(* check_for_updates returns the advertised version and sets               *)
(* update_available exactly when update_plugin, called in the same state   *)
(* with the same manifest, would go on to download and update.             *)
(***************************************************************************)
C27_CheckAgreesWithUpdate ==
    [][(/\ last'.op = "check_for_updates"
        /\ last'.source # None
        /\ Get(sources', last'.source).last_fetched_at = last'.n
        /\ PluginInfo(sources', last'.source, LastPart(last'.slug)) # {}) =>
           LET remote == Get(sources', last'.source).manifest_data
               would == update_plugin(sources, plugins, components, instances, cache, registry,
                                      last'.slug, remote, "WcV1", last'.n)
           IN  /\ (last'.result # None) <=> would.downloaded
               /\ Get(plugins', last'.slug).update_available <=> would.downloaded
               /\ last'.result # None =>
                      last'.result = Get(plugins', last'.slug).available_version]_vars

(***************************************************************************)
(* C28: load_installed_plugins downloads and writes nothing, and whatever  *)
(* number of plugins of the pass have no cache directory or fail to load,  *)
(* every enabled plugin with a source whose cache directory holds a        *)
(* loadable class has that class registered (under the slug the class      *)
(* declares, first registration winning); the plugins skipped add nothing  *)
(* to the registry.                                                        *)
(***************************************************************************)
\* the class load_plugin_from_path returns for the plugin row, or None
C28_Loadable(slug) ==
    LET row == Get(plugins, slug)
        dir == CacheDir(row.source, LastPart(slug))
    IN  IF row.enabled /\ row.source # None /\ Has(cache, dir) /\ Get(cache, dir) \in ClassIds
        THEN Get(cache, dir)
        ELSE None

C29_SyncNeverRaises ==
    last.op = "sync" =>
        LET pushes == {i \in DOMAIN last.calls : last.calls[i] = "sync_records"}
        IN  /\ ~last.raised
            /\ ~last.result.success <=>
                   (last.fetch.raises \/ (pushes # {} /\ last.push.raises))
            /\ Cardinality(pushes) <= 1
            /\ pushes # {} =>
                   /\ ~last.fetch.raises
                   /\ last.fetch.records # <<>>
                   /\ \A i \in pushes : i > 1 /\ last.calls[i - 1] = "fetch_records"

\* the helper raised on a batch of two records
C29_Witness ==
    /\ last.op = "sync"
    /\ Len(last.fetch.records) = 2
    /\ last.push.raises
    /\ last.calls = <<"fetch_records", "sync_records">>
    /\ ~last.result.success

(***************************************************************************)
(* C30: after any sequence of install, update and uninstall attempts,      *)
(* failed ones included, the cache directory of every plugin that is       *)
(* persisted as installed from a source exists and holds the complete      *)
(* download of one version, a plugin class that loads.                     *)
(***************************************************************************)
C30_InstalledHasCompleteCache ==
    \A e \in plugins :
        e[2].source # None =>
            LET dir == CacheDir(e[2].source, LastPart(e[1]))
            IN  Has(cache, dir) /\ Get(cache, dir) \in ClassIds

(***************************************************************************)
(* C31: when uninstall_plugin(plugin) has returned, the plugin row, its    *)
(* components, their instances and the logs of those instances are gone,   *)
(* the plugin's cache directory is removed, the executor's lookup finds    *)
(* none of its components, and the registry no longer holds the class the  *)
(* plugin was loaded from (unless another installed plugin's directory     *)
(* holds the same class).                                                  *)
(***************************************************************************)
\* the class in the cache directory of the plugin row, or None
C31_ClassOf(e) ==
    LET dir == CacheDir(e[2].source, LastPart(e[1]))
    IN  IF e[2].source # None /\ Has(cache, dir) /\ Get(cache, dir) \in ClassIds
        THEN Get(cache, dir)
        ELSE None

C31_UninstallRemovesEverything ==
    [][last'.op = "uninstall_plugin" =>
         LET slug == last'.slug
             row == Get(plugins, slug)
             c == C31_ClassOf(<<slug, row>>)
             others == {C31_ClassOf(e) : e \in {x \in plugins : x[1] # slug}}
         IN  /\ ~Has(plugins', slug)
             /\ \A x \in components' : x.plugin # slug
             /\ \A id \in DOMAIN instances' : instances'[id].plugin # slug
             /\ \A l \in DOMAIN logs' : logs'[l].instance \in DOMAIN instances'
             /\ row.source # None => ~Has(cache', CacheDir(row.source, LastPart(slug)))
             /\ \A x \in components :
                    x.plugin = slug =>
                        get_component(registry', x.component_type, FullSlug(slug, x.slug))
                            = NotFound
             /\ (c # None /\ c \notin others) =>
                    \A k \in {"plugins"} \cup Kinds : \A e \in registry'[k] :
                        (IF k = "plugins" THEN e[2] ELSE e[2][1]) # c]_vars

(***************************************************************************)
(* C32: in every registry state in which the slug a plugin class declares  *)
(* is absent, registering the class and then unregistering the slug gives  *)
(* back the same five maps; unregistering an absent slug changes nothing   *)
(* and returns False.                                                      *)
(***************************************************************************)
C32_RoundTrip(reg) ==
    \A c \in ClassIds :
        ~Has(reg.plugins, Classes(c).slug) =>
            /\ Has(register_plugin(reg, c).plugins, Classes(c).slug)
            /\ unregister_plugin(register_plugin(reg, c), Classes(c).slug) = reg
            /\ unregister_plugin(reg, Classes(c).slug) = reg

C33_InvalidClassRejected ==
    (/\ last.op \in {"install_plugin", "update_plugin"}
     /\ last.downloaded
     /\ last.cls \in ClassIds
     /\ validate_plugin_class(last.cls) # {}) =>
        /\ last.result \notin {"ok", "updated"}
        /\ last.op = "install_plugin" => ~Has(plugins, last.slug)
        /\ \A e \in registry.plugins : e[2] # last.cls

(***************************************************************************)
(* C34: after every call of load_plugin_from_path, returning a class or    *)
(* raising PluginLoadError, sys.path is what it was before the call.       *)
(***************************************************************************)
C34_SearchPathRestored ==
    [][last'.op = "load_plugin_from_path" => last'.path = last.path]_vars

(***************************************************************************)
(* C35: two different (directory, entry file) pairs get different module   *)
(* names, so a load leaves the module of every other pair in sys.modules   *)
(* as it was.                                                              *)
(***************************************************************************)
C35_ModuleNamesDistinct ==
    [][last'.op = "load_plugin_from_path" =>
         \A e \in last.modules :
             (e[2].dir # last'.dir \/ e[2].entry # last'.entry) => e \in last'.modules]_vars

(***************************************************************************)
(* C36: every entry get_available_plugins lists for a source is flagged    *)
(* installed exactly when the Plugin row "<source slug>.<entry slug>"      *)
(* exists with that source, and then carries that row's installed version. *)
(***************************************************************************)
C36_InstalledFlagExact ==
    \A s \in Keys(sources) : \A a \in installed_status(sources, plugins, s) :
        LET full_slug == <<s, a.slug>>
            row == Get(plugins, full_slug)
        IN  /\ a.installed <=> (Has(plugins, full_slug) /\ row.source = s)
            /\ a.installed => a.installed_version = row.installed_version

(***************************************************************************)
(* C37: a single-instance entry point invokes the capability method only   *)
(* for an instance whose Plugin row is enabled.                            *)
(***************************************************************************)
C37_DisabledPluginNeverInvoked ==
    (last.op \in {"execute_importer", "execute_preprocessor", "execute_postprocessor",
                  "execute_datasource"}
        /\ \E i \in DOMAIN last.trace : last.trace[i].ev = "invoke")
    => Get(plugins, instances[last.inst].plugin).enabled

(***************************************************************************)
(* C38: a run that created an execution log leaves it "success" only when  *)
(* the result handed back reports success; a capability result with        *)
(* success=False leaves the log "failed".                                  *)
(***************************************************************************)
C38_LogStatusFollowsResult ==
    (last.op \in {"execute_importer", "execute_preprocessor", "execute_postprocessor",
                  "execute_datasource"}
        /\ \E i \in DOMAIN last.trace : last.trace[i].ev = "log_create")
    => /\ logs[Len(logs)].status = "success" =>
              \A i \in DOMAIN last.results : last.results[i].success
       /\ (\E i \in DOMAIN last.results : ~last.results[i].success) =>
              logs[Len(logs)].status = "failed"

(***************************************************************************)
(* C39: right after a successful install_plugin or update_plugin, an       *)
(* update_plugin of the same plugin that fetches the manifest the source   *)
(* already holds reports no update, and a check_for_updates reports none.  *)
(***************************************************************************)
C39_InstallAndUpdateConverge ==
    [][(/\ last.op \in {"install_plugin", "update_plugin"}
        /\ last.result \in {"ok", "updated"}
        /\ last'.op \in {"update_plugin", "check_for_updates"}
        /\ last'.slug = last.slug
        /\ Get(sources', last'.source).last_fetched_at = last'.n
        /\ Get(sources', last'.source).manifest_data = Get(sources, last'.source).manifest_data)
       => last'.result = (IF last'.op = "update_plugin" THEN "no_update" ELSE None)]_vars

(***************************************************************************)
(* C40: an install_plugin that fails at the download, the load or while    *)
(* the rows are written leaves no Plugin row and no PluginComponent row of *)
(* the plugin, and the registry as it was.                                 *)
(***************************************************************************)
C40_FailedInstallLeavesNothing ==
    [][(/\ last'.op = "install_plugin"
        /\ last'.result \in {"download_failed", "load_failed", "integrity_error"})
       => /\ ~Has(plugins', last'.slug)
          /\ \A c \in components' : c.plugin # last'.slug
          /\ registry' = registry]_vars

====
